---- MODULE Spec2Model ----
(***************************************************************************)
(* Verification model of the shared package of the bus-transportation      *)
(* platform: the token service and permission evaluator of AuthUtils, the  *)
(* soft-delete flag of the persistence layer, the role-hierarchy resolver  *)
(* described by the specification, requests served in parallel, and the    *)
(* stateless helpers of AuthUtils and of the validation schemas, the       *)
(* Database singleton with the process's shutdown handlers and the audit   *)
(* helpers, and the loops of Utils.retry and Utils.chunk.                  *)
(*                                                                         *)
(* Strings that the code parses are sequences of one-character strings.    *)
(* A JavaScript object with optional properties is a record with a field   *)
(* `has`, the set of the properties that are present; an absent property   *)
(* holds a default of its type and is never read without testing `has`.    *)
(***************************************************************************)
EXTENDS Integers, Sequences, FiniteSets, TLC

VARIABLES
  config,     \* AuthUtils.config (private static), undefined until initialize
  now,        \* Math.floor(Date.now() / 1000), the wall clock in seconds
  isActive,   \* the isActive column of the UserRole rows in storage
  last,       \* the most recent call of an exported operation and its result
  assignments,   \* the UserRole records handed to the role-hierarchy resolver
  parentRoleId,  \* the parentRoleId column of the Role rows
  resolver,      \* the resolver's position in its walk and what it has collected
  ctxCheck,      \* the most recent context-aware permission check and its result
  requests,      \* the requests in flight: each one's position, token and results
  util,          \* the most recent call of a stateless helper and its result
  db,            \* Database.instance, the process and the calls in flight
  loop           \* the call of Utils.retry or Utils.chunk in progress

tokenVars == <<config, now, isActive, last>>
rbacVars == <<assignments, parentRoleId, resolver, ctxCheck>>
requestVars == <<requests>>
utilVars == <<util>>
dbVars == <<db>>
loopVars == <<loop>>
vars ==
  <<config, now, isActive, last, assignments, parentRoleId, resolver, ctxCheck,
    requests, util, db, loop>>

\* what the token service's operations, and the resolver's steps, leave alone
notTokenVars == <<rbacVars, requestVars, utilVars, dbVars, loopVars>>
notRbacVars == <<tokenVars, requestVars, utilVars, dbVars, loopVars>>

----------------------------------------------------------------------------
(* Bounds of the model *)

MaxClock == 3      \* the clock runs over 0..MaxClock

----------------------------------------------------------------------------
(* Small universes the inputs are drawn from *)

Secrets == {"k1", "k2"}
AccessSecrets == {"k1"}
Issuers == {"transport-api", "other-issuer"}
Audiences == {"transport-clients", "other-audience"}
ConfigIssuer == "transport-api"
ConfigAudience == "transport-clients"

Digits == {"0", "1", "2", "3", "4", "5", "6", "7", "8", "9"}
Units == {"s", "m", "h", "d"}

\* expiry strings a configuration may carry: "1s" and "7d", and the
\* malformed "2" (no unit) and "d" (no magnitude)
AccessExpiryStrings == {<<"1", "s">>, <<"2">>}
RefreshExpiryStrings == {<<"7", "d">>, <<"d">>}

Users ==
  { [id |-> "u1", email |-> "u1@bus.example", userType |-> "PASSENGER"],
    [id |-> "u2", email |-> "u2@bus.example", userType |-> "ADMIN"] }

RoleNames == {"dispatcher", "senior_dispatcher"}
PermissionNames == {"trip.assign", "route.edit"}

\* Role[] and Permission[] arguments (only the name is read by the token service)
RoleArrays == {<<[name |-> "senior_dispatcher"]>>}
PermissionArrays ==
  {<<>>, <<[name |-> "trip.assign"], [name |-> "route.edit"]>>}

UserRoleIds == {"ur1"}

Range(s) == {s[i] : i \in 1..Len(s)}

MapName(arr) == [i \in 1..Len(arr) |-> arr[i].name]

----------------------------------------------------------------------------
(* Claims objects (JwtPayload and the refresh-token payload) *)

ClaimFields ==
  {"sub", "email", "userType", "roles", "permissions", "type", "iat", "exp",
   "iss", "aud", "jti"}

EmptyClaims ==
  [has |-> {}, sub |-> "", email |-> "", userType |-> "", roles |-> <<>>,
   permissions |-> <<>>, type |-> "", iat |-> 0, exp |-> 0, iss |-> "",
   aud |-> "", jti |-> ""]

\* const payload: JwtPayload = { sub, email, userType, roles, permissions, iat, exp }
AccessPayload(user, roles, permissions, iat, exp) ==
  [EmptyClaims EXCEPT
     !.has = {"sub", "email", "userType", "roles", "permissions", "iat", "exp"},
     !.sub = user.id, !.email = user.email, !.userType = user.userType,
     !.roles = MapName(roles), !.permissions = MapName(permissions),
     !.iat = iat, !.exp = exp]

\* faulty variant: the refresh payload also embeds a permission
RefreshTokenPayload_withPermissions(user, iat, exp) ==
  [EmptyClaims EXCEPT
     !.has = {"sub", "type", "iat", "exp", "permissions"},
     !.sub = user.id, !.type = "refresh", !.iat = iat, !.exp = exp,
     !.permissions = <<"trip.assign">>]

\* const refreshTokenPayload = { sub, type: 'refresh', iat, exp }
RefreshTokenPayload(user, iat, exp) ==
  [EmptyClaims EXCEPT
     !.has = {"sub", "type", "iat", "exp"},
     !.sub = user.id, !.type = "refresh", !.iat = iat, !.exp = exp]

----------------------------------------------------------------------------
(* Token strings.  A string that is a JWT is described by the key its       *)
(* signature was made with, the claims its payload segment decodes to, and  *)
(* whether the signature still matches header.payload (no byte was changed  *)
(* after signing), and by its header segment.  Any other string is         *)
(* "garbage".                                                               *)

\* the header jwt.sign writes when it is given no header option: alg and typ
JoseHeader == [has |-> {"alg", "typ"}, jti |-> ""]

NoToken ==
  [form |-> "none", key |-> "", claims |-> EmptyClaims, intact |-> FALSE,
   header |-> JoseHeader]
Garbage ==
  [form |-> "garbage", key |-> "", claims |-> EmptyClaims, intact |-> FALSE,
   header |-> JoseHeader]
Jwt(key, claims) ==
  [form |-> "jwt", key |-> key, claims |-> claims, intact |-> TRUE,
   header |-> JoseHeader]
Tampered(t) == [t EXCEPT !.intact = FALSE]

----------------------------------------------------------------------------
(* Results of calls: what a call returned, or the error it threw *)

NoResult ==
  [kind |-> "none", err |-> "", payload |-> EmptyClaims,
   accessToken |-> NoToken, refreshToken |-> NoToken, expiresIn |-> 0,
   tokenType |-> "", bool |-> FALSE]

Null == [NoResult EXCEPT !.kind = "null"]
Throw(e) == [NoResult EXCEPT !.kind = "throw", !.err = e]
Value(c) == [NoResult EXCEPT !.kind = "payload", !.payload = c]
Bool(b) == [NoResult EXCEPT !.kind = "bool", !.bool = b]
AuthTokens(a, r, e, t) ==
  [NoResult EXCEPT !.kind = "tokens", !.accessToken = a, !.refreshToken = r,
                   !.expiresIn = e, !.tokenType = t]

----------------------------------------------------------------------------
(* The process-wide configuration *)

UndefinedConfig ==
  [defined |-> FALSE, accessTokenSecret |-> "", refreshTokenSecret |-> "",
   accessTokenExpiry |-> <<>>, refreshTokenExpiry |-> <<>>, issuer |-> "",
   audience |-> ""]

JwtConfigs ==
  [defined : {TRUE}, accessTokenSecret : AccessSecrets,
   refreshTokenSecret : Secrets,
   accessTokenExpiry : AccessExpiryStrings,
   refreshTokenExpiry : RefreshExpiryStrings,
   issuer : {ConfigIssuer}, audience : {ConfigAudience}]

----------------------------------------------------------------------------
(* parseExpiry: /^(\d+)([smhd])$/, parseInt(match[1], 10) * multipliers[unit] *)

RECURSIVE parseInt(_)
parseInt(ds) ==
  IF Len(ds) = 0 THEN 0
  ELSE 10 * parseInt(SubSeq(ds, 1, Len(ds) - 1))
       + (CHOOSE n \in 0..9 : ToString(n) = ds[Len(ds)])

\* faulty variant: a day counts as an hour
multipliers_dayAsHour(unit) ==
  CASE unit = "s" -> 1
    [] unit = "m" -> 60
    [] unit = "h" -> 3600
    [] unit = "d" -> 3600

multipliers(unit) ==
  CASE unit = "s" -> 1
    [] unit = "m" -> 60
    [] unit = "h" -> 3600
    [] unit = "d" -> 86400

ExpiryMatches(expiry) ==
  /\ Len(expiry) >= 2
  /\ \A i \in 1..(Len(expiry) - 1) : expiry[i] \in Digits
  /\ expiry[Len(expiry)] \in Units

\* [ok |-> FALSE] stands for `throw new Error("Invalid expiry format: ...")`
parseExpiry(expiry) ==
  IF ~ExpiryMatches(expiry)
    THEN [ok |-> FALSE, seconds |-> 0]
    ELSE [ok |-> TRUE,
          seconds |-> parseInt(SubSeq(expiry, 1, Len(expiry) - 1))
                        * multipliers(expiry[Len(expiry)])]

----------------------------------------------------------------------------
(* The jsonwebtoken library, as AuthUtils calls it *)

SignOptions(issuer, audience, expiresIn) ==
  [issuer |-> issuer, audience |-> audience, hasExpiresIn |-> TRUE,
   expiresIn |-> expiresIn]

\* jwt.sign(payload, secret, options).  The library refuses an expiresIn
\* option when the payload already carries exp ('Bad "options.expiresIn"
\* option the payload already has an "exp" property'); otherwise it copies
\* issuer and audience into iss and aud, derives exp from expiresIn, and signs.
jwt_sign(payload, secret, options) ==
  IF "exp" \in payload.has /\ options.hasExpiresIn
    THEN [ok |-> FALSE, err |-> "BadOptionsExpiresIn", token |-> NoToken]
  ELSE IF options.hasExpiresIn /\ ~parseExpiry(options.expiresIn).ok
    THEN [ok |-> FALSE, err |-> "BadOptionsExpiresIn", token |-> NoToken]
  ELSE
    LET withExp ==
          IF options.hasExpiresIn
            THEN [payload EXCEPT
                    !.has = @ \cup {"exp"},
                    !.exp = payload.iat + parseExpiry(options.expiresIn).seconds]
            ELSE payload
        claims ==
          [withExp EXCEPT !.has = @ \cup {"iss", "aud"},
                          !.iss = options.issuer, !.aud = options.audience]
    IN [ok |-> TRUE, err |-> "", token |-> Jwt(secret, claims)]

\* faulty variant: a token is still accepted at the second it expires
jwt_verify_expired_late(clock, exp) == clock > exp

\* clockTimestamp >= payload.exp throws TokenExpiredError
jwt_verify_expired(clock, exp) == clock >= exp

\* faulty variant: the issuer option is not passed to the library
jwt_verify_issuer_skipped(claims, issuer) == TRUE

\* options.issuer: the iss claim must equal the configured issuer
jwt_verify_issuer(claims, issuer) ==
  "iss" \in claims.has /\ claims.iss = issuer

\* options.audience: the aud claim must equal the configured audience
jwt_verify_audience(claims, audience) ==
  "aud" \in claims.has /\ claims.aud = audience

\* jwt.verify(token, secret, {issuer, audience}): the decoded payload, or the
\* error thrown (malformed, invalid signature, expired, audience, issuer)
jwt_verify(token, secret, issuer, audience, clock) ==
  IF token.form # "jwt"
    THEN [ok |-> FALSE, err |-> "JsonWebTokenError: jwt malformed", payload |-> EmptyClaims]
  ELSE IF token.key # secret \/ ~token.intact
    THEN [ok |-> FALSE, err |-> "JsonWebTokenError: invalid signature", payload |-> EmptyClaims]
  ELSE IF "exp" \in token.claims.has /\ jwt_verify_expired(clock, token.claims.exp)
    THEN [ok |-> FALSE, err |-> "TokenExpiredError: jwt expired", payload |-> EmptyClaims]
  ELSE IF ~jwt_verify_audience(token.claims, audience)
    THEN [ok |-> FALSE, err |-> "JsonWebTokenError: jwt audience invalid", payload |-> EmptyClaims]
  ELSE IF ~jwt_verify_issuer(token.claims, issuer)
    THEN [ok |-> FALSE, err |-> "JsonWebTokenError: jwt issuer invalid", payload |-> EmptyClaims]
  ELSE [ok |-> TRUE, err |-> "", payload |-> token.claims]

----------------------------------------------------------------------------
(* AuthUtils: the token service *)

\* generateTokens(user, roles, permissions), evaluated statement by statement;
\* the first statement that throws ends the call with that error
generateTokens(user, roles, permissions) ==
  IF ~config.defined THEN Throw("TypeError: config is undefined")
  ELSE
    LET accessTokenExpiry == parseExpiry(config.accessTokenExpiry)
        refreshTokenExpiry == parseExpiry(config.refreshTokenExpiry)
    IN
    IF ~accessTokenExpiry.ok \/ ~refreshTokenExpiry.ok
      THEN Throw("Error: Invalid expiry format")
    ELSE
      LET payload ==
            AccessPayload(user, roles, permissions, now,
                          now + accessTokenExpiry.seconds)
          accessToken ==
            jwt_sign(payload, config.accessTokenSecret,
                     SignOptions(config.issuer, config.audience,
                                 config.accessTokenExpiry))
          refreshTokenPayload ==
            RefreshTokenPayload(user, now, now + refreshTokenExpiry.seconds)
          refreshToken ==
            jwt_sign(refreshTokenPayload, config.refreshTokenSecret,
                     SignOptions(config.issuer, config.audience,
                                 config.refreshTokenExpiry))
      IN
      IF ~accessToken.ok THEN Throw(accessToken.err)
      ELSE IF ~refreshToken.ok THEN Throw(refreshToken.err)
      ELSE AuthTokens(accessToken.token, refreshToken.token,
                      accessTokenExpiry.seconds, "Bearer")

\* faulty variant: the configuration is read before the try block is entered
verifyAccessToken_unguarded(token) ==
  IF ~config.defined THEN Throw("TypeError: config is undefined")
  ELSE
    LET decoded == jwt_verify(token, config.accessTokenSecret, config.issuer,
                              config.audience, now)
    IN IF ~decoded.ok THEN Null ELSE Value(decoded.payload)

\* try { return jwt.verify(token, config.accessTokenSecret, {issuer, audience}) }
\* catch { return null }; reading a property of the undefined config throws
\* inside the try block
verifyAccessToken(token) ==
  IF ~config.defined THEN Null
  ELSE
    LET decoded == jwt_verify(token, config.accessTokenSecret, config.issuer,
                              config.audience, now)
    IN IF ~decoded.ok THEN Null ELSE Value(decoded.payload)

\* as verifyAccessToken with the refresh secret; then decoded.type !== 'refresh'
\* gives null, and only { sub, type } of the decoded claims is returned
verifyRefreshToken(token) ==
  IF ~config.defined THEN Null
  ELSE
    LET decoded == jwt_verify(token, config.refreshTokenSecret, config.issuer,
                              config.audience, now)
    IN
    IF ~decoded.ok THEN Null
    ELSE IF ~("type" \in decoded.payload.has /\ decoded.payload.type = "refresh")
      THEN Null
    ELSE Value([EmptyClaims EXCEPT
                  !.has = {"type"} \cup (decoded.payload.has \cap {"sub"}),
                  !.sub = decoded.payload.sub, !.type = decoded.payload.type])

----------------------------------------------------------------------------
(* AuthUtils: the permission evaluator.  payload.permissions.includes(x)   *)
(* throws a TypeError when the payload has no permissions array.           *)

\* faulty variant: the check also consults the assignment row in storage
hasPermission_live(payload, permission) ==
  IF "permissions" \notin payload.has THEN Throw("TypeError")
  ELSE Bool(permission \in Range(payload.permissions) /\ isActive["ur1"])

hasPermission(payload, permission) ==
  IF "permissions" \notin payload.has THEN Throw("TypeError")
  ELSE Bool(permission \in Range(payload.permissions))

hasRole(payload, role) ==
  IF "roles" \notin payload.has THEN Throw("TypeError")
  ELSE Bool(role \in Range(payload.roles))

\* faulty variant: every listed role is required
hasAnyRole_every(payload, roles) ==
  IF Len(roles) = 0 THEN Bool(FALSE)
  ELSE IF "roles" \notin payload.has THEN Throw("TypeError")
  ELSE Bool(\A i \in 1..Len(roles) : roles[i] \in Range(payload.roles))

\* roles.some(...) never calls its callback on an empty list
hasAnyRole(payload, roles) ==
  IF Len(roles) = 0 THEN Bool(FALSE)
  ELSE IF "roles" \notin payload.has THEN Throw("TypeError")
  ELSE Bool(\E i \in 1..Len(roles) : roles[i] \in Range(payload.roles))

\* roles.every(...) never calls its callback on an empty list
hasAllRoles(payload, roles) ==
  IF Len(roles) = 0 THEN Bool(TRUE)
  ELSE IF "roles" \notin payload.has THEN Throw("TypeError")
  ELSE Bool(\A i \in 1..Len(roles) : roles[i] \in Range(payload.roles))

hasAnyPermission(payload, permissions) ==
  IF Len(permissions) = 0 THEN Bool(FALSE)
  ELSE IF "permissions" \notin payload.has THEN Throw("TypeError")
  ELSE Bool(\E i \in 1..Len(permissions) :
              permissions[i] \in Range(payload.permissions))

hasAllPermissions(payload, permissions) ==
  IF Len(permissions) = 0 THEN Bool(TRUE)
  ELSE IF "permissions" \notin payload.has THEN Throw("TypeError")
  ELSE Bool(\A i \in 1..Len(permissions) :
              permissions[i] \in Range(payload.permissions))

----------------------------------------------------------------------------
(* AuthUtils: token lifetime.  payload.exp is a number (JwtPayload).        *)

Max(a, b) == IF a >= b THEN a ELSE b

\* Math.max(0, payload.exp - now)
getTimeToExpiry(payload) == Max(0, payload.exp - now)

\* thresholdSeconds: number = 300
DefaultThresholdSeconds == 300

\* faulty variant: the threshold itself no longer asks for a refresh
shouldRefreshToken_strict(payload, thresholdSeconds) ==
  LET thresholdValue == IF thresholdSeconds.has THEN thresholdSeconds.value
                        ELSE DefaultThresholdSeconds
  IN getTimeToExpiry(payload) < thresholdValue

\* the default applies when the argument is not passed (undefined)
shouldRefreshToken(payload, thresholdSeconds) ==
  LET thresholdValue == IF thresholdSeconds.has THEN thresholdSeconds.value
                        ELSE DefaultThresholdSeconds
  IN getTimeToExpiry(payload) <= thresholdValue

----------------------------------------------------------------------------
(* Database: the soft-delete helpers flip isActive of a row *)

softDelete(id) == [isActive EXCEPT ![id] = FALSE]

restore(id) == [isActive EXCEPT ![id] = TRUE]

----------------------------------------------------------------------------
(* Roles, permissions and assignments (Role, Permission, UserRole) *)

RoleIds == {"senior_dispatcher", "dispatcher", "route_manager"}
NoRole == ""

\* the permissions attached to each role
rolePermissions(role) ==
  CASE role = "senior_dispatcher" -> {"trip.override"}
    [] role = "dispatcher" -> {"trip.assign"}
    [] role = "route_manager" -> {"route.edit", "trip.assign"}

\* Permission.contextRequired
contextRequired(permission) == permission = "route.edit"

NoContext == [has |-> FALSE, type |-> "", id |-> ""]
Context(type, id) == [has |-> TRUE, type |-> type, id |-> id]

UserRole(roleId, context, hasExpiresAt, expiresAt, active) ==
  [userId |-> "u1", roleId |-> roleId, context |-> context,
   hasExpiresAt |-> hasExpiresAt, expiresAt |-> expiresAt, isActive |-> active]

\* effective at time T iff isActive and (expiresAt is null or expiresAt > T)
Effective(a, T) == a.isActive /\ (~a.hasExpiresAt \/ a.expiresAt > T)

----------------------------------------------------------------------------
(* The role-hierarchy resolver: for each effective assignment, walk the     *)
(* role's parent chain upward, collecting the permissions of every visited  *)
(* role, with a visited set that turns a revisit into CyclicRoleHierarchy   *)

IdleResolver ==
  [pc |-> "idle", pending |-> {}, current |-> NoRole, context |-> NoContext,
   visited |-> {}, permissions |-> {}, contexts |-> {}, steps |-> 0, err |-> ""]

Min(S) == CHOOSE x \in S : \A y \in S : x <= y

\* faulty variant: a context-required permission is collected like any other
collect_ignoringContext(r, role) ==
  [r EXCEPT
     !.permissions = @ \cup rolePermissions(role),
     !.contexts = @ \cup
        IF r.context.has
          THEN {<<p, r.context.type, r.context.id>> :
                  p \in {q \in rolePermissions(role) : contextRequired(q)}}
          ELSE {}]

\* the permissions of one visited role: a context-required permission is
\* collected only when the assignment being walked carries a context, and is
\* then recorded with that (contextType, contextId) pair
collect(r, role) ==
  [r EXCEPT
     !.permissions = @ \cup
        {p \in rolePermissions(role) : ~contextRequired(p) \/ r.context.has},
     !.contexts = @ \cup
        IF r.context.has
          THEN {<<p, r.context.type, r.context.id>> :
                  p \in {q \in rolePermissions(role) : contextRequired(q)}}
          ELSE {}]

\* faulty variant: no visited set is kept
revisited_unchecked(r) == FALSE

\* the role about to be visited was already visited on this walk
revisited(r) == r.current \in r.visited

\* faulty variant: membership in the payload decides every check
checkContextualPermission_membershipOnly(payload, name, resource, lookup) ==
  hasPermission(payload, name)

\* checkContextualPermission(payload, name, resourceType, resourceId, lookup):
\* plain membership for a permission that is not context-required; otherwise
\* the live lookup must hold the permission for (resourceType, resourceId)
checkContextualPermission(payload, name, resource, lookup) ==
  IF ~contextRequired(name) THEN hasPermission(payload, name)
  ELSE IF ~resource.has THEN Throw("MissingContextForCheck")
  ELSE IF lookup.pc = "failed" THEN Throw(lookup.err)
  ELSE IF hasPermission(payload, name).kind # "bool"
    THEN hasPermission(payload, name)
  ELSE Bool(/\ hasPermission(payload, name).bool
            /\ <<name, resource.type, resource.id>> \in lookup.contexts)

----------------------------------------------------------------------------
(* The token strings a caller may present to the verifiers: every token of  *)
(* the two shapes generateTokens builds, bound to any issuer and audience   *)
(* and signed with any key; each token bound to the configured issuer and   *)
(* audience with a byte changed after signing; and a string that is no JWT  *)

TokenExpiries == {1, 2}

PresentedUser == CHOOSE u \in Users : u.id = "u1"

BoundTo(claims, iss, aud) ==
  [claims EXCEPT !.has = @ \cup {"iss", "aud"}, !.iss = iss, !.aud = aud]

PresentedClaims ==
  { BoundTo(c, iss, aud) :
      c \in { AccessPayload(PresentedUser, r, p, 0, e) :
                r \in RoleArrays, p \in PermissionArrays, e \in TokenExpiries }
            \cup { RefreshTokenPayload(PresentedUser, 0, e) : e \in TokenExpiries },
      iss \in Issuers, aud \in Audiences }

PresentedTokens ==
  { Jwt(k, c) : k \in Secrets, c \in PresentedClaims }
  \cup { Tampered(Jwt(k, c)) :
           k \in Secrets,
           c \in {x \in PresentedClaims :
                   x.iss = ConfigIssuer /\ x.aud = ConfigAudience} }
  \cup { Garbage }

NameLists == {<<>>, <<"trip.assign">>, <<"route.edit", "senior_dispatcher">>}

----------------------------------------------------------------------------
(* Inputs of the resolver and of the context-aware check *)

\* the walks of all assignments together never take more steps than this
MaxSteps == 8

\* the times a resolution is asked for: before and at the expiresAt (2) of
\* the assignments that carry one
ResolveTimes == {1, 2}

Contexts == {NoContext, Context("ROUTE", "route-123")}

FirstAssignments ==
  { UserRole(r, c, e, 2, a) :
      r \in RoleIds, c \in Contexts, e \in BOOLEAN, a \in BOOLEAN }

SecondAssignments ==
  { UserRole(r, Context("ROUTE", "route-456"), FALSE, 0, TRUE) : r \in RoleIds }

CheckedPayloads ==
  { AccessPayload(CHOOSE u \in Users : u.id = "u1", r, p, 0, 2) :
      r \in RoleArrays, p \in PermissionArrays }

CheckedPermissions == {"route.edit", "trip.assign"}

CheckedResources ==
  {NoContext, Context("ROUTE", "route-123"), Context("ROUTE", "route-456")}

----------------------------------------------------------------------------
(* Requests in flight.  A request verifies the token it carries and then    *)
(* runs permission checks on the payload the verifier returned.             *)

RequestIds == {"req1", "req2"}

IdleRequest ==
  [pc |-> "start", token |-> NoToken, verifier |-> "", verified |-> NoResult,
   check |-> "", names |-> <<>>, out |-> NoResult]

NoRequests == [r \in RequestIds |-> IdleRequest]

----------------------------------------------------------------------------
(* Calls of the stateless helpers: arguments and results *)

\* the role-assignment input handed to assignRoleSchema
NoAssignRoleInput ==
  [has |-> {}, userId |-> "", roleId |-> "", contextType |-> "",
   contextId |-> "", expiresAt |-> ""]

\* an optional number argument (undefined when not passed)
Undefined == [has |-> FALSE, value |-> 0]
Number(n) == [has |-> TRUE, value |-> n]

NoArgs ==
  [text |-> <<>>, text2 |-> <<>>, present |-> FALSE, payload |-> EmptyClaims,
   threshold |-> Undefined, token |-> NoToken, input |-> NoAssignRoleInput]

NoUtilResult ==
  [kind |-> "none", num |-> 0, bool |-> FALSE, chars |-> <<>>, id |-> "",
   digestOf |-> NoToken, issues |-> {}, err |-> "", source |-> ""]

Num(n) == [NoUtilResult EXCEPT !.kind = "number", !.num = n]
Boolean(b) == [NoUtilResult EXCEPT !.kind = "boolean", !.bool = b]
String(cs) == [NoUtilResult EXCEPT !.kind = "string", !.chars = cs]
NullValue == [NoUtilResult EXCEPT !.kind = "null"]
UndefinedValue == [NoUtilResult EXCEPT !.kind = "undefined"]
Thrown(e) == [NoUtilResult EXCEPT !.kind = "throw", !.err = e]

\* a token identifier read from the token
TokenId(id) == [NoUtilResult EXCEPT !.kind = "string", !.id = id]

\* crypto.createHash('sha256').update(token).digest('hex').slice(0, 16): a
\* string determined by the raw token
Sha256Hex16(token) == [NoUtilResult EXCEPT !.kind = "string", !.digestOf = token]

----------------------------------------------------------------------------
(* Validation: assignRoleSchema.  A field that fails its type or its enum   *)
(* aborts the object (the refinement is then not run); a string that fails  *)
(* a format check only adds an issue.                                       *)

\* strings that z.string().uuid() and z.string().datetime() accept
Uuids == {"3f2c9a1e-0000-4000-8000-000000000001",
          "3f2c9a1e-0000-4000-8000-000000000002"}
Datetimes == {"2030-01-01T00:00:00Z"}

\* z.enum(["GLOBAL", "ROUTE", "LOCATION"])
ContextTypes == {"GLOBAL", "ROUTE", "LOCATION"}

RefineMessage == "Context type required when context ID is provided"

\* faulty variant: the schema carries no refinement
refinement_none(data) == TRUE

\* (data) => !data.contextId || data.contextType, by JavaScript truthiness:
\* an absent property and the empty string are falsy
refinement(data) ==
  \/ ~("contextId" \in data.has /\ data.contextId # "")
  \/ ("contextType" \in data.has /\ data.contextType # "")

\* assignRoleSchema.safeParse(input): the issues raised; success iff none
assignRoleSchema(input) ==
  LET required(field) ==
        IF field \notin input.has THEN {<<field, "Required">>} ELSE {}
      uuid(field, value) ==
        IF field \in input.has /\ value \notin Uuids
          THEN {<<field, "Invalid uuid">>} ELSE {}
      enum ==
        IF "contextType" \in input.has /\ input.contextType \notin ContextTypes
          THEN {<<"contextType", "Invalid enum value">>} ELSE {}
      datetime ==
        IF "expiresAt" \in input.has /\ input.expiresAt \notin Datetimes
          THEN {<<"expiresAt", "Invalid datetime">>} ELSE {}
      aborting == required("userId") \cup required("roleId") \cup enum
      fields == aborting \cup uuid("userId", input.userId)
                  \cup uuid("roleId", input.roleId)
                  \cup uuid("contextId", input.contextId) \cup datetime
      refined == IF aborting = {} /\ ~refinement(input)
                   THEN {<<"", RefineMessage>>} ELSE {}
  IN [NoUtilResult EXCEPT !.kind = "parse",
                          !.bool = (fields \cup refined = {}),
                          !.issues = fields \cup refined]

----------------------------------------------------------------------------
(* AuthUtils: the Authorization header *)

Bearer == <<"B", "e", "a", "r", "e", "r">>

\* String.prototype.split(' '): the pieces between the single blanks; a
\* string without a blank, the empty string included, is one piece
RECURSIVE split(_)
split(s) ==
  IF " " \notin Range(s) THEN <<s>>
  ELSE LET i == CHOOSE k \in 1..Len(s) :
                  s[k] = " " /\ \A j \in 1..(k - 1) : s[j] # " "
       IN <<SubSeq(s, 1, i - 1)>> \o split(SubSeq(s, i + 1, Len(s)))

\* faulty variant: the scheme is compared without regard to case
isBearer_anyCase(part) ==
  part \in {Bearer, <<"b", "e", "a", "r", "e", "r">>}

\* parts[0] === 'Bearer'
isBearer(part) == part = Bearer

\* extractTokenFromHeader(authHeader?): !authHeader holds for an absent
\* header and for the empty string
extractTokenFromHeader(present, authHeader) ==
  IF ~present \/ authHeader = <<>> THEN NullValue
  ELSE LET parts == split(authHeader) IN
       IF Len(parts) # 2 \/ ~isBearer(parts[1]) THEN NullValue
       ELSE String(parts[2])

----------------------------------------------------------------------------
(* AuthUtils: rate-limit and attempt keys (template literals) *)

RateLimitPrefix == <<"r", "a", "t", "e", "_", "l", "i", "m", "i", "t">>
AttemptsPrefix == <<"a", "t", "t", "e", "m", "p", "t", "s">>

\* faulty variant: no delimiter between action and identifier
generateRateLimitKey_noDelimiter(identifier, action) ==
  RateLimitPrefix \o <<":">> \o action \o identifier

\* `rate_limit:${action}:${identifier}`
generateRateLimitKey(identifier, action) ==
  RateLimitPrefix \o <<":">> \o action \o <<":">> \o identifier

\* `attempts:${action}:${identifier}`
generateAttemptKey(identifier, action) ==
  AttemptsPrefix \o <<":">> \o action \o <<":">> \o identifier

----------------------------------------------------------------------------
(* AuthUtils: token identifiers for the blacklist *)

\* jwt.decode(token, { complete: true }): { header, payload, signature } of a
\* string that is a JWT, without verifying it; null for any other string
jwt_decode_complete(token) ==
  IF token.form # "jwt"
    THEN [isNull |-> TRUE, header |-> JoseHeader, payload |-> EmptyClaims]
    ELSE [isNull |-> FALSE, header |-> token.header, payload |-> token.claims]

\* try { return decoded.header.jti || decoded.sub } catch { return the digest }:
\* decoded.header of null throws inside the try block; decoded, the complete
\* decoding, has no property sub, so decoded.sub is undefined
extractTokenId(token) ==
  LET decoded == jwt_decode_complete(token) IN
  IF decoded.isNull THEN Sha256Hex16(token)
  ELSE IF "jti" \in decoded.header.has /\ decoded.header.jti # ""
    THEN TokenId(decoded.header.jti)
  ELSE UndefinedValue

\* `blacklist:${tokenId}`: the template literal writes undefined as the
\* text "undefined"
BlacklistPrefix == <<"b", "l", "a", "c", "k", "l", "i", "s", "t", ":">>

generateBlacklistKey(tokenId) ==
  [tokenId EXCEPT !.kind = "string", !.chars = BlacklistPrefix,
                  !.id = IF tokenId.kind = "undefined" THEN "undefined" ELSE @]

----------------------------------------------------------------------------
(* Expiry of a decoded payload, and decoding without verification *)

\* AuthUtils.isTokenExpired(payload): payload.exp < now
isTokenExpired(payload) == payload.exp < now

\* Utils.isTokenExpired(payload): payload.exp < now
Utils_isTokenExpired(payload) == payload.exp < now

\* Utils.extractJwtPayload(token): the JSON of the second of three
\* dot-separated parts, base64-decoded; null for any other string.  Neither
\* the signature nor a claim is looked at.
extractJwtPayload(token) ==
  IF token.form # "jwt" THEN Null ELSE Value(token.claims)

----------------------------------------------------------------------------
(* Generators of tokens and codes.  A generated string is represented by    *)
(* the source its characters are drawn from and by its length.              *)

Random(source, length) ==
  [NoUtilResult EXCEPT !.kind = "string", !.source = source, !.num = length]

\* crypto.randomBytes(length).toString("hex"): two characters for each byte
generateRandomString(length) == Random("crypto.randomBytes", 2 * length)

\* each character is digits[Math.floor(Math.random() * digits.length)]
generateVerificationCode(length) == Random("Math.random", length)

generateEmailVerificationToken == generateRandomString(32)
generatePasswordResetToken == generateRandomString(32)
generatePhoneVerificationCode == generateVerificationCode(6)
generateSessionId == generateRandomString(64)
generateCsrfToken == generateRandomString(32)

UtilCall(op, args, out) == [op |-> op, args |-> args, out |-> out]

NoUtil == UtilCall("idle", NoArgs, NoUtilResult)

----------------------------------------------------------------------------
(* Database: the PrismaClient singleton, the process and the audit helpers *)

MaxCalls == 3     \* getInstance is called at most MaxCalls times
MaxSignals == 2   \* at most MaxSignals signals are delivered to the process

\* the events getInstance registers a handler for
Events == {"beforeExit", "SIGINT", "SIGTERM"}
Signals == {"SIGINT", "SIGTERM"}

\* who has a $disconnect() call in flight: a handler, or Database.disconnect
Sources == Events \cup {"disconnect"}

\* a call of an audit helper: pc is "idle", "awaiting" (the create call),
\* "resolved" or "rejected"; logged is what console.error was given
NoAudit == [op |-> "none", pc |-> "idle", logged |-> ""]

\* Before getInstance is first called Database.instance is undefined (0); the
\* PrismaClients constructed are numbered from 1.
InitialDatabase ==
  [instance |-> 0, constructed |-> 0, connects |-> 0, connection |-> "none",
   handlers |-> [e \in Events |-> 0], calls |-> 0, returned |-> {},
   process |-> "running", exitCode |-> 0, signals |-> 0, handled |-> FALSE,
   disconnecting |-> [s \in Sources |-> 0], health |-> "none",
   audit |-> NoAudit]

\* the body of if (!Database.instance): a new PrismaClient, its $connect()
\* call, and one handler registered for each of the three events
construct(d) ==
  [d EXCEPT !.constructed = @ + 1, !.instance = d.constructed + 1,
            !.connects = @ + 1, !.connection = "connecting",
            !.handlers = [e \in Events |-> @[e] + 1]]

getInstance_unguarded(d) ==
  LET c == construct(d)
  IN [c EXCEPT !.calls = @ + 1, !.returned = @ \cup {c.instance}]

\* Database.getInstance(): constructs only while Database.instance is unset,
\* and returns Database.instance
getInstance(d) ==
  LET c == IF d.instance = 0 THEN construct(d) ELSE d
  IN [c EXCEPT !.calls = @ + 1, !.returned = @ \cup {c.instance}]

\* process.exit(code)
exit(d, code) == [d EXCEPT !.process = "exited", !.exitCode = code]

\* the values handed to createAuditLog as oldValues / newValues
AuditValues == {"undefined", "plain", "circular", "function"}

\* v ? JSON.parse(JSON.stringify(v)) : null: stringify throws on a circular
\* structure and returns undefined for a function, which JSON.parse rejects
serialize(v) ==
  CASE v = "circular" -> "TypeError: Converting circular structure to JSON"
    [] v = "function" -> "SyntaxError: \"undefined\" is not valid JSON"
    [] OTHER -> ""

catch_rethrown(op, error) ==
  [op |-> op, pc |-> "rejected", logged |-> error]

\* catch (error) { console.error(...) }: the error is logged, not thrown
catch(op, error) ==
  [op |-> op, pc |-> "resolved", logged |-> error]

\* createAuditLog / createPermissionAuditLog up to the await: reading a
\* property of the undefined instance and serializing the values both happen
\* inside the try block
auditUntilAwait(d, op, oldValues, newValues) ==
  IF d.instance = 0
    THEN catch(op, "TypeError: Cannot read properties of undefined")
  ELSE IF op = "createAuditLog" /\ serialize(oldValues) # ""
    THEN catch(op, serialize(oldValues))
  ELSE IF op = "createAuditLog" /\ serialize(newValues) # ""
    THEN catch(op, serialize(newValues))
  ELSE [op |-> op, pc |-> "awaiting", logged |-> ""]

\* the awaited create call settles
auditAfterAwait(a, written) ==
  IF written THEN [a EXCEPT !.pc = "resolved"]
  ELSE catch(a.op, "PrismaClientKnownRequestError")

----------------------------------------------------------------------------
(* Utils.retry and Utils.chunk: the loops, one iteration at a time *)

MaxAttempts == 3   \* the largest maxAttempts handed to retry
MaxArrayLen == 3   \* the longest array handed to chunk
MaxSize == 3       \* the largest size handed to chunk
MaxChunks == 5     \* the chunks memory has room for (more than MaxArrayLen)

\* let lastError: Error, before its first assignment
NoError == [has |-> FALSE, err |-> ""]
Error(e) == [has |-> TRUE, err |-> e]

\* what an invocation of fn did: returned a value or threw an error
Returns(v) == [threw |-> FALSE, what |-> v]
Throws(e) == [threw |-> TRUE, what |-> e]

\* pc of retry: "test" (the loop condition), "calling" (await fn()),
\* "delaying" (await this.delay), "resolved", "rejected"; of chunk: "loop",
\* "returned", "outOfMemory".  calls is the history of fn's invocations.
NoLoop ==
  [op |-> "none", pc |-> "idle", maxAttempts |-> 0, attempt |-> 0,
   lastError |-> NoError, calls |-> <<>>, value |-> "",
   array |-> <<>>, size |-> 0, i |-> 0, chunks |-> <<>>]

\* maxAttempts: number = 3
DefaultMaxAttempts == 3

StartRetry(maxAttempts) ==
  [NoLoop EXCEPT !.op = "retry", !.pc = "test", !.attempt = 1,
                 !.maxAttempts = IF maxAttempts.has THEN maxAttempts.value
                                 ELSE DefaultMaxAttempts]

lastError_first(previous, error) ==
  IF previous.has THEN previous ELSE Error(error)

\* lastError = error as Error
lastError(previous, error) == Error(error)

StartChunk(array, size) ==
  [NoLoop EXCEPT !.op = "chunk", !.pc = "loop", !.array = array, !.size = size]

\* array.slice(start, end): a negative index counts from the end, an index
\* beyond the length is the length
slice(array, start, end) ==
  LET len == Len(array)
      from == IF start < 0 THEN Max(len + start, 0)
              ELSE IF start < len THEN start ELSE len
      to == IF end < 0 THEN Max(len + end, 0)
            ELSE IF end < len THEN end ELSE len
  IN IF from < to THEN SubSeq(array, from + 1, to) ELSE <<>>

\* i += size
increment(i, size) == i + size

----------------------------------------------------------------------------
(* The state machine *)

\* a call: the operation, the token it concerns, the verifier the checked
\* payload came from, the names passed (and the role names, for generateTokens)
Call(op, token, via, arg, out) ==
  [op |-> op, token |-> token, via |-> via, arg |-> arg, roles |-> <<>>,
   out |-> out]

Idle == Call("idle", NoToken, "", <<>>, NoResult)

ChainAssignment ==
  <<UserRole("senior_dispatcher", NoContext, FALSE, 0, TRUE)>>

ChainGraph ==
  [r \in RoleIds |->
     CASE r = "senior_dispatcher" -> "dispatcher"
       [] r = "dispatcher" -> "route_manager"
       [] r = "route_manager" -> NoRole]

NoCheck == [name |-> "", resource |-> NoContext, payload |-> EmptyClaims,
            out |-> NoResult]

Init ==
  /\ config = UndefinedConfig
  /\ now = 0
  /\ isActive = [id \in UserRoleIds |-> TRUE]
  /\ last = Idle
  /\ assignments = ChainAssignment
  /\ parentRoleId = ChainGraph
  /\ resolver = IdleResolver
  /\ ctxCheck = NoCheck
  /\ requests = NoRequests
  /\ util = NoUtil
  /\ db = InitialDatabase
  /\ loop = NoLoop

\* AuthUtils.initialize(config)
Initialize(c) ==
  /\ config' = c
  /\ last' = Call("initialize", NoToken, "", <<>>, NoResult)
  /\ UNCHANGED <<now, isActive>>
  /\ UNCHANGED notTokenVars

GenerateTokens(user, roles, permissions) ==
  /\ last' = [Call("generateTokens", NoToken, user.id, MapName(permissions),
                   generateTokens(user, roles, permissions))
                EXCEPT !.roles = MapName(roles)]
  /\ UNCHANGED <<config, now, isActive>>
  /\ UNCHANGED notTokenVars

VerifyAccessToken(token) ==
  /\ last' = Call("verifyAccessToken", token, "", <<>>, verifyAccessToken(token))
  /\ UNCHANGED <<config, now, isActive>>
  /\ UNCHANGED notTokenVars

VerifyRefreshToken(token) ==
  /\ last' = Call("verifyRefreshToken", token, "", <<>>, verifyRefreshToken(token))
  /\ UNCHANGED <<config, now, isActive>>
  /\ UNCHANGED notTokenVars

\* the tokens handed to extractJwtPayload: those bound to the configured
\* issuer and audience, under either key, intact or tampered, and a string
\* that is no JWT
DecodedTokens ==
  {t \in PresentedTokens :
     t.form = "jwt" =>
       (t.claims.iss = ConfigIssuer /\ t.claims.aud = ConfigAudience)}

\* Utils.extractJwtPayload(token)
ExtractJwtPayload(token) ==
  /\ last' = Call("extractJwtPayload", token, "", <<>>, extractJwtPayload(token))
  /\ UNCHANGED <<config, now, isActive>>
  /\ UNCHANGED notTokenVars

\* a check applied to the payload the preceding verification returned
Verified ==
  /\ last.op \in {"verifyAccessToken", "verifyRefreshToken"}
  /\ last.out.kind = "payload"

HasPermission(permission) ==
  /\ Verified
  /\ last' = Call("hasPermission", last.token, last.op, <<permission>>,
                  hasPermission(last.out.payload, permission))
  /\ UNCHANGED <<config, now, isActive>>
  /\ UNCHANGED notTokenVars

HasRole(role) ==
  /\ Verified
  /\ last' = Call("hasRole", last.token, last.op, <<role>>,
                  hasRole(last.out.payload, role))
  /\ UNCHANGED <<config, now, isActive>>
  /\ UNCHANGED notTokenVars

HasAnyRole(roles) ==
  /\ Verified
  /\ last' = Call("hasAnyRole", last.token, last.op, roles,
                  hasAnyRole(last.out.payload, roles))
  /\ UNCHANGED <<config, now, isActive>>
  /\ UNCHANGED notTokenVars

HasAllRoles(roles) ==
  /\ Verified
  /\ last' = Call("hasAllRoles", last.token, last.op, roles,
                  hasAllRoles(last.out.payload, roles))
  /\ UNCHANGED <<config, now, isActive>>
  /\ UNCHANGED notTokenVars

HasAnyPermission(permissions) ==
  /\ Verified
  /\ last' = Call("hasAnyPermission", last.token, last.op, permissions,
                  hasAnyPermission(last.out.payload, permissions))
  /\ UNCHANGED <<config, now, isActive>>
  /\ UNCHANGED notTokenVars

HasAllPermissions(permissions) ==
  /\ Verified
  /\ last' = Call("hasAllPermissions", last.token, last.op, permissions,
                  hasAllPermissions(last.out.payload, permissions))
  /\ UNCHANGED <<config, now, isActive>>
  /\ UNCHANGED notTokenVars

\* Database.softDelete('userRole', id): an administrator revokes an assignment
SoftDelete(id) ==
  /\ isActive[id]
  /\ isActive' = softDelete(id)
  /\ UNCHANGED <<config, now, last>>
  /\ UNCHANGED notTokenVars

\* Database.restore('userRole', id)
Restore(id) ==
  /\ ~isActive[id]
  /\ isActive' = restore(id)
  /\ UNCHANGED <<config, now, last>>
  /\ UNCHANGED notTokenVars

\* a second passes; the result of the last call has been handed to its caller
Tick ==
  /\ now < MaxClock
  /\ now' = now + 1
  /\ last' = Idle
  /\ UNCHANGED <<config, isActive>>
  /\ UNCHANGED notTokenVars

Next ==
  \/ \E c \in JwtConfigs : Initialize(c)
  \/ \E u \in Users, r \in RoleArrays, p \in PermissionArrays :
       GenerateTokens(u, r, p)
  \/ \E t \in PresentedTokens : VerifyAccessToken(t)
  \/ \E t \in PresentedTokens : VerifyRefreshToken(t)
  \/ \E t \in DecodedTokens : ExtractJwtPayload(t)
  \/ \E p \in PermissionNames : HasPermission(p)
  \/ \E r \in RoleNames : HasRole(r)
  \/ \E rs \in NameLists : HasAnyRole(rs)
  \/ \E rs \in NameLists : HasAllRoles(rs)
  \/ \E ps \in NameLists : HasAnyPermission(ps)
  \/ \E ps \in NameLists : HasAllPermissions(ps)
  \/ \E id \in UserRoleIds : SoftDelete(id)
  \/ \E id \in UserRoleIds : Restore(id)
  \/ Tick

Spec == Init /\ [][Next]_vars

----------------------------------------------------------------------------
(* The resolver and the context-aware check as a state machine over inputs  *)
(* drawn from small sets                                                    *)

AssignmentInputs ==
  { <<a>> : a \in FirstAssignments }
  \cup { <<a, b>> : a \in FirstAssignments, b \in SecondAssignments }

RoleGraphs == [RoleIds -> RoleIds \cup {NoRole}]

RbacInit ==
  /\ config = UndefinedConfig
  /\ now \in ResolveTimes
  /\ isActive = [id \in UserRoleIds |-> TRUE]
  /\ last = Idle
  /\ assignments \in AssignmentInputs
  /\ parentRoleId \in RoleGraphs
  /\ resolver = IdleResolver
  /\ ctxCheck = NoCheck
  /\ requests = NoRequests
  /\ util = NoUtil
  /\ db = InitialDatabase
  /\ loop = NoLoop

\* the resolver filters the assignments by the effectiveness rule
StartResolve ==
  /\ resolver.pc = "idle"
  /\ resolver' =
       [IdleResolver EXCEPT
          !.pc = "walking",
          !.pending = {i \in DOMAIN assignments : Effective(assignments[i], now)}]
  /\ UNCHANGED <<assignments, parentRoleId, ctxCheck>>
  /\ UNCHANGED notRbacVars

\* it takes up the next effective assignment and starts a walk at its role
NextAssignment ==
  /\ resolver.pc = "walking"
  /\ resolver.current = NoRole
  /\ resolver.pending # {}
  /\ LET i == Min(resolver.pending) IN
       resolver' = [resolver EXCEPT
                      !.pending = @ \ {i},
                      !.current = assignments[i].roleId,
                      !.context = assignments[i].context,
                      !.visited = {}]
  /\ UNCHANGED <<assignments, parentRoleId, ctxCheck>>
  /\ UNCHANGED notRbacVars

\* it visits the current role and moves to its parent, or fails on a revisit
VisitRole ==
  /\ resolver.pc = "walking"
  /\ resolver.current # NoRole
  /\ resolver.steps < MaxSteps
  /\ IF revisited(resolver)
       THEN resolver' = [resolver EXCEPT
                           !.pc = "failed", !.err = "CyclicRoleHierarchy",
                           !.permissions = {}, !.contexts = {}]
       ELSE resolver' = [collect(resolver, resolver.current) EXCEPT
                           !.visited = @ \cup {resolver.current},
                           !.current = parentRoleId[resolver.current],
                           !.steps = @ + 1]
  /\ UNCHANGED <<assignments, parentRoleId, ctxCheck>>
  /\ UNCHANGED notRbacVars

\* every effective assignment has been walked
FinishResolve ==
  /\ resolver.pc = "walking"
  /\ resolver.current = NoRole
  /\ resolver.pending = {}
  /\ resolver' = [resolver EXCEPT !.pc = "done"]
  /\ UNCHANGED <<assignments, parentRoleId, ctxCheck>>
  /\ UNCHANGED notRbacVars

CheckContextualPermission(payload, name, resource) ==
  /\ resolver.pc \in {"done", "failed"}
  /\ ctxCheck' = [name |-> name, resource |-> resource, payload |-> payload,
                  out |-> checkContextualPermission(payload, name, resource,
                                                    resolver)]
  /\ UNCHANGED <<assignments, parentRoleId, resolver>>
  /\ UNCHANGED notRbacVars

RbacNext ==
  \/ StartResolve
  \/ NextAssignment
  \/ VisitRole
  \/ FinishResolve
  \/ \E payload \in CheckedPayloads, name \in CheckedPermissions,
        resource \in CheckedResources :
       CheckContextualPermission(payload, name, resource)

SpecRbac == RbacInit /\ [][RbacNext]_vars

----------------------------------------------------------------------------
(* Several requests served by one process.  Every exported operation is    *)
(* synchronous, so a call runs to completion; the calls of different        *)
(* requests interleave in any order.                                        *)

\* configurations with well-formed durations, the two secrets equal or not
RequestConfigs ==
  {c \in JwtConfigs :
     parseExpiry(c.accessTokenExpiry).ok /\ parseExpiry(c.refreshTokenExpiry).ok}

\* the clock at which the requests are served
RequestTimes == {1, 2}

\* the tokens the requests carry: access and refresh tokens under either key
\* that expire at 2, and a string that is no JWT
RequestTokens ==
  {t \in PresentedTokens :
     /\ t.form = "jwt" /\ t.intact
     /\ t.claims.iss = ConfigIssuer /\ t.claims.aud = ConfigAudience
     /\ t.claims.exp = 2
     /\ "permissions" \in t.claims.has => Len(t.claims.permissions) > 0}
  \cup {Garbage}

SingleChecks == {"hasPermission", "hasRole"}
ListChecks ==
  {"hasAnyRole", "hasAllRoles", "hasAnyPermission", "hasAllPermissions"}

\* the check a request runs on its payload
Evaluate(op, payload, names) ==
  CASE op = "hasPermission" -> hasPermission(payload, names[1])
    [] op = "hasRole" -> hasRole(payload, names[1])
    [] op = "hasAnyRole" -> hasAnyRole(payload, names)
    [] op = "hasAllRoles" -> hasAllRoles(payload, names)
    [] op = "hasAnyPermission" -> hasAnyPermission(payload, names)
    [] op = "hasAllPermissions" -> hasAllPermissions(payload, names)

\* faulty variant: the checks read the payload of the token the process
\* handled last, kept in a field shared by all requests
givenPayload_shared(r) == last.token.claims

\* the payload argument of a check: the object the request's own verifier
\* call returned
givenPayload(r) == requests[r].verified.payload

RequestsInit ==
  /\ config \in RequestConfigs
  /\ now \in RequestTimes
  /\ isActive = [id \in UserRoleIds |-> TRUE]
  /\ last = Idle
  /\ assignments = ChainAssignment
  /\ parentRoleId = ChainGraph
  /\ resolver = IdleResolver
  /\ ctxCheck = NoCheck
  /\ requests = NoRequests
  /\ util = NoUtil
  /\ db = InitialDatabase
  /\ loop = NoLoop

RequestVerifyAccess(r, token) ==
  /\ requests[r].pc = "start"
  /\ requests' =
       [requests EXCEPT ![r] =
          [IdleRequest EXCEPT !.pc = "verified", !.token = token,
                              !.verifier = "verifyAccessToken",
                              !.verified = verifyAccessToken(token)]]
  /\ last' = Call("verifyAccessToken", token, "", <<>>, verifyAccessToken(token))
  /\ UNCHANGED <<config, now, isActive, rbacVars, utilVars, dbVars, loopVars>>

RequestVerifyRefresh(r, token) ==
  /\ requests[r].pc = "start"
  /\ requests' =
       [requests EXCEPT ![r] =
          [IdleRequest EXCEPT !.pc = "verified", !.token = token,
                              !.verifier = "verifyRefreshToken",
                              !.verified = verifyRefreshToken(token)]]
  /\ last' = Call("verifyRefreshToken", token, "", <<>>, verifyRefreshToken(token))
  /\ UNCHANGED <<config, now, isActive, rbacVars, utilVars, dbVars, loopVars>>

\* a check on the payload the request's verifier returned; the payload object
\* is only read (Array.prototype.includes)
RequestCheck(r, op, names) ==
  /\ requests[r].pc \in {"verified", "checked"}
  /\ requests[r].verified.kind = "payload"
  /\ op \in SingleChecks => Len(names) = 1
  /\ LET out == Evaluate(op, givenPayload(r), names) IN
       /\ requests' = [requests EXCEPT ![r].pc = "checked", ![r].check = op,
                                       ![r].names = names, ![r].out = out]
       /\ last' = Call(op, requests[r].token, requests[r].verifier, names, out)
  /\ UNCHANGED <<config, now, isActive, rbacVars, utilVars, dbVars, loopVars>>

\* the response is sent; the request's slot serves the next request
RequestEnd(r) ==
  /\ requests[r].pc # "start"
  /\ requests' = [requests EXCEPT ![r] = IdleRequest]
  /\ UNCHANGED <<tokenVars, rbacVars, utilVars, dbVars, loopVars>>

RequestsNext ==
  \/ \E r \in RequestIds, t \in RequestTokens : RequestVerifyAccess(r, t)
  \/ \E r \in RequestIds, t \in RequestTokens : RequestVerifyRefresh(r, t)
  \/ \E r \in RequestIds, op \in SingleChecks \cup ListChecks, names \in NameLists :
       RequestCheck(r, op, names)
  \/ \E r \in RequestIds : RequestEnd(r)

SpecRequests == RequestsInit /\ [][RequestsNext]_vars

----------------------------------------------------------------------------
(* The stateless helpers.  The initial state holds a call that is about to  *)
(* be made, its arguments drawn from small sets; the helper's action makes  *)
(* the call and records what it returned or threw.                          *)

\* a call about to be made
Pending(op, args) == UtilCall(op, args, NoUtilResult)

IsPending(op) == util.op = op /\ util.out.kind = "none"

\* the call has been made
Returned(op) == util.op = op /\ util.out.kind # "none"

\* the longest duration string handed to parseExpiry
MaxExpiryLen == 4

\* digits, the four units, an unknown unit, a sign, a point and a blank
ExpiryAlphabet == {"0", "1", "9", "s", "m", "h", "d", "x", "-", ".", " "}

RECURSIVE StringsUpTo(_, _)
StringsUpTo(alphabet, n) ==
  IF n = 0 THEN {<<>>}
  ELSE LET shorter == StringsUpTo(alphabet, n - 1)
       IN shorter \cup {Append(w, c) : w \in {v \in shorter : Len(v) = n - 1},
                                        c \in alphabet}

ExpiryInputs == StringsUpTo(ExpiryAlphabet, MaxExpiryLen)

\* the clock values at which lifetimes are asked for
UtilTimes == {0, 1000}

\* exp of the payloads: 0, 299, 300 and 301 seconds after either clock value,
\* and one second before the later one
RefreshExpiries == {0, 299, 300, 301, 999, 1000, 1299, 1300, 1301}

RefreshPayloads ==
  {AccessPayload(PresentedUser, r, <<>>, 0, e) :
     r \in RoleArrays, e \in RefreshExpiries}

Thresholds == {Undefined, Number(0), Number(299), Number(300), Number(301)}

\* the longest identifier or action a key is built from
MaxKeyPartLen == 2

\* two letters and the delimiter
KeyAlphabet == {"a", "b", ":"}

KeyParts == StringsUpTo(KeyAlphabet, MaxKeyPartLen)

\* the most blank-separated pieces a header is put together from
MaxHeaderParts == 3

\* the pieces: the scheme, the scheme in lower case, another scheme, nothing
\* (two blanks in a row, or a blank at either end), and two credentials
HeaderPieces ==
  {Bearer, <<"b", "e", "a", "r", "e", "r">>, <<"B", "a", "s", "i", "c">>, <<>>,
   <<"a", "b", "c">>, <<"x">>}

RECURSIVE Joined(_)
Joined(n) ==
  IF n = 1 THEN HeaderPieces
  ELSE Joined(n - 1)
       \cup {h \o <<" ">> \o piece : h \in Joined(n - 1), piece \in HeaderPieces}

Headers == Joined(MaxHeaderParts)

\* role-assignment inputs: each property absent, valid, or a string its
\* schema refuses (for contextId also the empty string)
Optional(field, values) ==
  {[has |-> {}, value |-> ""]} \cup {[has |-> {field}, value |-> v] : v \in values}

AssignRoleInputs ==
  {[has |-> u.has \cup r.has \cup t.has \cup c.has \cup e.has,
    userId |-> u.value, roleId |-> r.value, contextType |-> t.value,
    contextId |-> c.value, expiresAt |-> e.value] :
     u \in Optional("userId", {"3f2c9a1e-0000-4000-8000-000000000001", "user 1"}),
     r \in Optional("roleId", {"3f2c9a1e-0000-4000-8000-000000000002", "role 1"}),
     t \in Optional("contextType", {"GLOBAL", "ROUTE", "BUS"}),
     c \in Optional("contextId",
                    {"3f2c9a1e-0000-4000-8000-000000000001", "route-123", ""}),
     e \in Optional("expiresAt", {"2030-01-01T00:00:00Z", "tomorrow"})}

TokenIds == {"id-1", "id-2"}

\* a token whose payload carries the jti claim
WithClaimJti(t, id) ==
  [t EXCEPT !.claims = [@ EXCEPT !.has = @ \cup {"jti"}, !.jti = id]]

\* a token signed with a header option that puts jti into the header
WithHeaderJti(t, id) ==
  [t EXCEPT !.header = [@ EXCEPT !.has = @ \cup {"jti"}, !.jti = id]]

\* the tokens handed to extractTokenId: the presented tokens bound to the
\* configured issuer and audience, as they are and with a jti claim, a jti
\* header or both; and a string that is no JWT
IdentifiedTokens ==
  LET base == {t \in PresentedTokens :
                 /\ t.form = "jwt"
                 /\ t.claims.iss = ConfigIssuer /\ t.claims.aud = ConfigAudience}
  IN base
     \cup {WithClaimJti(t, id) : t \in base, id \in TokenIds}
     \cup {WithHeaderJti(t, id) : t \in base, id \in TokenIds}
     \cup {WithHeaderJti(WithClaimJti(t, id), other) :
             t \in base, id \in TokenIds, other \in TokenIds}
     \cup {Garbage}

\* the calls about to be made, helper by helper
ParseExpiryCalls ==
  {Pending("parseExpiry", [NoArgs EXCEPT !.text = expiry]) :
     expiry \in ExpiryInputs}

ShouldRefreshTokenCalls ==
  {Pending("shouldRefreshToken", [NoArgs EXCEPT !.payload = p, !.threshold = t]) :
     p \in RefreshPayloads, t \in Thresholds}

ExtractTokenIdCalls ==
  {Pending("extractTokenId", [NoArgs EXCEPT !.token = t]) : t \in IdentifiedTokens}

ExtractTokenFromHeaderCalls ==
  {Pending("extractTokenFromHeader", [NoArgs EXCEPT !.present = TRUE, !.text = h]) :
     h \in Headers}
  \cup {Pending("extractTokenFromHeader", NoArgs)}

AssignRoleSchemaCalls ==
  {Pending("assignRoleSchema", [NoArgs EXCEPT !.input = i]) :
     i \in AssignRoleInputs}

KeyCalls ==
  {Pending(op, [NoArgs EXCEPT !.text = identifier, !.text2 = action]) :
     op \in {"generateRateLimitKey", "generateAttemptKey"},
     identifier \in KeyParts, action \in KeyParts}

IsTokenExpiredCalls ==
  {Pending(op, [NoArgs EXCEPT !.payload = p]) :
     op \in {"isTokenExpired", "Utils.isTokenExpired"}, p \in RefreshPayloads}

GenerateBlacklistKeyCalls ==
  {Pending("generateBlacklistKey", [NoArgs EXCEPT !.token = t]) :
     t \in IdentifiedTokens}

Generators ==
  {"generateEmailVerificationToken", "generatePasswordResetToken",
   "generatePhoneVerificationCode", "generateSessionId", "generateCsrfToken"}

GeneratorCalls == {Pending(op, NoArgs) : op \in Generators}

\* the helpers that read the clock
ReadsClock(call) ==
  call.op \in {"shouldRefreshToken", "isTokenExpired", "Utils.isTokenExpired"}

UtilInit ==
  /\ config = UndefinedConfig
  /\ \/ util \in ParseExpiryCalls
     \/ util \in ShouldRefreshTokenCalls
     \/ util \in ExtractTokenIdCalls
     \/ util \in ExtractTokenFromHeaderCalls
     \/ util \in AssignRoleSchemaCalls
     \/ util \in KeyCalls
     \/ util \in IsTokenExpiredCalls
     \/ util \in GenerateBlacklistKeyCalls
     \/ util \in GeneratorCalls
  /\ now \in IF ReadsClock(util) THEN UtilTimes ELSE {0}
  /\ isActive = [id \in UserRoleIds |-> TRUE]
  /\ last = Idle
  /\ assignments = ChainAssignment
  /\ parentRoleId = ChainGraph
  /\ resolver = IdleResolver
  /\ ctxCheck = NoCheck
  /\ requests = NoRequests
  /\ db = InitialDatabase
  /\ loop = NoLoop

\* AuthUtils.parseExpiry(expiry)
ParseExpiry ==
  /\ IsPending("parseExpiry")
  /\ util' = [util EXCEPT !.out =
                 IF parseExpiry(util.args.text).ok
                   THEN Num(parseExpiry(util.args.text).seconds)
                   ELSE Thrown("Invalid expiry format")]
  /\ UNCHANGED <<tokenVars, rbacVars, requestVars, dbVars, loopVars>>

\* AuthUtils.shouldRefreshToken(payload, thresholdSeconds)
ShouldRefreshToken ==
  /\ IsPending("shouldRefreshToken")
  /\ util' = [util EXCEPT !.out =
                 Boolean(shouldRefreshToken(util.args.payload,
                                            util.args.threshold))]
  /\ UNCHANGED <<tokenVars, rbacVars, requestVars, dbVars, loopVars>>

\* AuthUtils.extractTokenId(token)
ExtractTokenId ==
  /\ IsPending("extractTokenId")
  /\ util' = [util EXCEPT !.out = extractTokenId(util.args.token)]
  /\ UNCHANGED <<tokenVars, rbacVars, requestVars, dbVars, loopVars>>

\* AuthUtils.generateRateLimitKey(identifier, action)
GenerateRateLimitKey ==
  /\ IsPending("generateRateLimitKey")
  /\ util' = [util EXCEPT !.out =
                 String(generateRateLimitKey(util.args.text, util.args.text2))]
  /\ UNCHANGED <<tokenVars, rbacVars, requestVars, dbVars, loopVars>>

\* AuthUtils.generateAttemptKey(identifier, action)
GenerateAttemptKey ==
  /\ IsPending("generateAttemptKey")
  /\ util' = [util EXCEPT !.out =
                 String(generateAttemptKey(util.args.text, util.args.text2))]
  /\ UNCHANGED <<tokenVars, rbacVars, requestVars, dbVars, loopVars>>

\* AuthUtils.extractTokenFromHeader(authHeader)
ExtractTokenFromHeader ==
  /\ IsPending("extractTokenFromHeader")
  /\ util' = [util EXCEPT !.out =
                 extractTokenFromHeader(util.args.present, util.args.text)]
  /\ UNCHANGED <<tokenVars, rbacVars, requestVars, dbVars, loopVars>>

\* assignRoleSchema.safeParse(input)
AssignRoleSchema ==
  /\ IsPending("assignRoleSchema")
  /\ util' = [util EXCEPT !.out = assignRoleSchema(util.args.input)]
  /\ UNCHANGED <<tokenVars, rbacVars, requestVars, dbVars, loopVars>>

\* AuthUtils.isTokenExpired(payload)
IsTokenExpired ==
  /\ IsPending("isTokenExpired")
  /\ util' = [util EXCEPT !.out = Boolean(isTokenExpired(util.args.payload))]
  /\ UNCHANGED <<tokenVars, rbacVars, requestVars, dbVars, loopVars>>

\* Utils.isTokenExpired(payload)
UtilsIsTokenExpired ==
  /\ IsPending("Utils.isTokenExpired")
  /\ util' = [util EXCEPT !.out =
                 Boolean(Utils_isTokenExpired(util.args.payload))]
  /\ UNCHANGED <<tokenVars, rbacVars, requestVars, dbVars, loopVars>>

\* AuthUtils.generateBlacklistKey(AuthUtils.extractTokenId(token))
GenerateBlacklistKey ==
  /\ IsPending("generateBlacklistKey")
  /\ util' = [util EXCEPT !.out =
                 generateBlacklistKey(extractTokenId(util.args.token))]
  /\ UNCHANGED <<tokenVars, rbacVars, requestVars, dbVars, loopVars>>

\* AuthUtils.generateEmailVerificationToken()
GenerateEmailVerificationToken ==
  /\ IsPending("generateEmailVerificationToken")
  /\ util' = [util EXCEPT !.out = generateEmailVerificationToken]
  /\ UNCHANGED <<tokenVars, rbacVars, requestVars, dbVars, loopVars>>

\* AuthUtils.generatePasswordResetToken()
GeneratePasswordResetToken ==
  /\ IsPending("generatePasswordResetToken")
  /\ util' = [util EXCEPT !.out = generatePasswordResetToken]
  /\ UNCHANGED <<tokenVars, rbacVars, requestVars, dbVars, loopVars>>

\* AuthUtils.generatePhoneVerificationCode()
GeneratePhoneVerificationCode ==
  /\ IsPending("generatePhoneVerificationCode")
  /\ util' = [util EXCEPT !.out = generatePhoneVerificationCode]
  /\ UNCHANGED <<tokenVars, rbacVars, requestVars, dbVars, loopVars>>

\* AuthUtils.generateSessionId()
GenerateSessionId ==
  /\ IsPending("generateSessionId")
  /\ util' = [util EXCEPT !.out = generateSessionId]
  /\ UNCHANGED <<tokenVars, rbacVars, requestVars, dbVars, loopVars>>

\* AuthUtils.generateCsrfToken()
GenerateCsrfToken ==
  /\ IsPending("generateCsrfToken")
  /\ util' = [util EXCEPT !.out = generateCsrfToken]
  /\ UNCHANGED <<tokenVars, rbacVars, requestVars, dbVars, loopVars>>

UtilNext ==
  \/ AssignRoleSchema
  \/ ParseExpiry
  \/ ShouldRefreshToken
  \/ ExtractTokenId
  \/ ExtractTokenFromHeader
  \/ GenerateRateLimitKey
  \/ GenerateAttemptKey
  \/ IsTokenExpired
  \/ UtilsIsTokenExpired
  \/ GenerateBlacklistKey
  \/ GenerateEmailVerificationToken
  \/ GeneratePasswordResetToken
  \/ GeneratePhoneVerificationCode
  \/ GenerateSessionId
  \/ GenerateCsrfToken

SpecUtil == UtilInit /\ [][UtilNext]_vars

----------------------------------------------------------------------------
(* The Database class in a running process.  Promises settle in separate   *)
(* steps, so calls, signals and settlements interleave.  Nothing happens    *)
(* in a process that has exited.                                            *)

notDbVars == <<tokenVars, rbacVars, requestVars, utilVars, loopVars>>

Running == db.process = "running"

\* no $connect, $disconnect or create call is pending: the event loop is empty
LoopEmpty ==
  /\ db.connection # "connecting"
  /\ \A s \in Sources : db.disconnecting[s] = 0
  /\ db.audit.pc # "awaiting"

\* Database.getInstance()
GetInstance ==
  /\ Running
  /\ db.calls < MaxCalls
  /\ db' = getInstance(db)
  /\ UNCHANGED notDbVars

\* $connect() resolves: .then logs the success
ConnectResolves ==
  /\ Running
  /\ db.connection = "connecting"
  /\ db' = [db EXCEPT !.connection = "connected"]
  /\ UNCHANGED notDbVars

\* $connect() rejects: .catch logs the error and calls process.exit(1)
ConnectRejects ==
  /\ Running
  /\ db.connection = "connecting"
  /\ db' = exit([db EXCEPT !.connection = "failed"], 1)
  /\ UNCHANGED notDbVars

\* Database.disconnect(): awaits $disconnect() if there is an instance
Disconnect ==
  /\ Running
  /\ db.disconnecting["disconnect"] = 0
  /\ db' = IF db.instance # 0
             THEN [db EXCEPT !.disconnecting["disconnect"] = 1]
             ELSE db
  /\ UNCHANGED notDbVars

\* Database.healthCheck(): true if the query succeeds, false if it throws,
\* as it does when there is no instance to query
HealthCheck(answers) ==
  /\ Running
  /\ db' = [db EXCEPT !.health =
                IF db.instance # 0 /\ answers THEN "true" ELSE "false"]
  /\ UNCHANGED notDbVars

\* SIGINT or SIGTERM is delivered: every handler registered for it starts
\* and calls $disconnect(); with no handler the signal ends the process
Signal(sig) ==
  /\ Running
  /\ db.signals < MaxSignals
  /\ db' = IF db.handlers[sig] = 0
             THEN [db EXCEPT !.process = "killed", !.signals = @ + 1]
             ELSE [db EXCEPT !.signals = @ + 1,
                             !.disconnecting[sig] = @ + db.handlers[sig]]
  /\ UNCHANGED notDbVars

\* the event loop has run empty: the beforeExit handler calls $disconnect()
BeforeExit ==
  /\ Running
  /\ LoopEmpty
  /\ db.handlers["beforeExit"] > 0
  /\ db' = [db EXCEPT !.disconnecting["beforeExit"] = 1]
  /\ UNCHANGED notDbVars

\* a $disconnect() call resolves.  A signal handler goes on to
\* process.exit(0); after the beforeExit handler the process ends by itself.
DisconnectResolves(source) ==
  /\ Running
  /\ db.disconnecting[source] > 0
  /\ LET d == [db EXCEPT !.disconnecting[source] = @ - 1] IN
     db' = CASE source \in Signals -> exit([d EXCEPT !.handled = TRUE], 0)
             [] source = "beforeExit" -> exit(d, 0)
             [] OTHER -> d
  /\ UNCHANGED notDbVars

\* a $disconnect() call rejects.  In a handler the await throws, nothing
\* catches it and the statements after it are skipped; the unhandled
\* rejection ends the process with code 1 or is only reported, depending on
\* the runtime's unhandled-rejections mode.
DisconnectRejects(source, fatal) ==
  /\ Running
  /\ db.disconnecting[source] > 0
  /\ LET d == [db EXCEPT !.disconnecting[source] = @ - 1,
                         !.handled = @ \/ source \in Signals] IN
     db' = IF source \in Events /\ fatal THEN exit(d, 1) ELSE d
  /\ UNCHANGED notDbVars

\* Database.createAuditLog(...) / Database.createPermissionAuditLog(...)
CreateAuditLog(op, oldValues, newValues) ==
  /\ Running
  /\ db.audit.pc # "awaiting"
  /\ db' = [db EXCEPT !.audit = auditUntilAwait(db, op, oldValues, newValues)]
  /\ UNCHANGED notDbVars

\* the create call of the audit helper settles: the row is written or not
AuditCreateSettles(written) ==
  /\ Running
  /\ db.audit.pc = "awaiting"
  /\ db' = [db EXCEPT !.audit = auditAfterAwait(db.audit, written)]
  /\ UNCHANGED notDbVars

DbInit ==
  /\ config = UndefinedConfig
  /\ now = 0
  /\ isActive = [id \in UserRoleIds |-> TRUE]
  /\ last = Idle
  /\ assignments = ChainAssignment
  /\ parentRoleId = ChainGraph
  /\ resolver = IdleResolver
  /\ ctxCheck = NoCheck
  /\ requests = NoRequests
  /\ util = NoUtil
  /\ db = InitialDatabase
  /\ loop = NoLoop

DbNext ==
  \/ GetInstance
  \/ ConnectResolves
  \/ ConnectRejects
  \/ Disconnect
  \/ \E answers \in BOOLEAN : HealthCheck(answers)
  \/ \E sig \in Signals : Signal(sig)
  \/ BeforeExit
  \/ \E source \in Sources : DisconnectResolves(source)
  \/ \E source \in Sources, fatal \in BOOLEAN : DisconnectRejects(source, fatal)
  \/ \E op \in {"createAuditLog", "createPermissionAuditLog"},
        oldValues \in AuditValues, newValues \in AuditValues :
       CreateAuditLog(op, oldValues, newValues)
  \/ \E written \in BOOLEAN : AuditCreateSettles(written)

SpecDb == DbInit /\ [][DbNext]_vars

----------------------------------------------------------------------------
(* Utils.retry and Utils.chunk.  The call is drawn in the initial state;    *)
(* what fn does at each invocation is chosen when it is invoked.            *)

notLoopVars == <<tokenVars, rbacVars, requestVars, utilVars, dbVars>>

\* the values fn resolves with and the errors it throws
FnValues == {"v1", "v2"}
FnErrors == {"e1", "e2"}

\* maxAttempts as passed: omitted, or a number
MaxAttemptsValues == {Undefined} \cup {Number(n) : n \in -1..MaxAttempts}

Elements == {"a", "b"}
Arrays == StringsUpTo(Elements, MaxArrayLen)
Sizes == -1..MaxSize

LoopInit ==
  /\ config = UndefinedConfig
  /\ now = 0
  /\ isActive = [id \in UserRoleIds |-> TRUE]
  /\ last = Idle
  /\ assignments = ChainAssignment
  /\ parentRoleId = ChainGraph
  /\ resolver = IdleResolver
  /\ ctxCheck = NoCheck
  /\ requests = NoRequests
  /\ util = NoUtil
  /\ db = InitialDatabase
  /\ \/ loop \in {StartRetry(m) : m \in MaxAttemptsValues}
     \/ loop \in {StartChunk(array, size) : array \in Arrays, size \in Sizes}

\* attempt <= maxAttempts holds: fn is invoked inside the try block
RetryInvoke ==
  /\ loop.op = "retry" /\ loop.pc = "test"
  /\ loop.attempt <= loop.maxAttempts
  /\ loop' = [loop EXCEPT !.pc = "calling"]
  /\ UNCHANGED notLoopVars

\* attempt <= maxAttempts fails: the loop is left and lastError is thrown
RetryLeave ==
  /\ loop.op = "retry" /\ loop.pc = "test"
  /\ ~(loop.attempt <= loop.maxAttempts)
  /\ loop' = [loop EXCEPT !.pc = "rejected"]
  /\ UNCHANGED notLoopVars

\* fn() resolves: return await fn()
FnReturns(v) ==
  /\ loop.op = "retry" /\ loop.pc = "calling"
  /\ loop' = [loop EXCEPT !.pc = "resolved", !.value = v,
                          !.calls = Append(@, Returns(v))]
  /\ UNCHANGED notLoopVars

\* fn() throws or rejects: the catch block keeps the error, breaks out of
\* the loop at the last attempt (and lastError is thrown), and otherwise
\* waits for delayMs * attempt
FnThrows(e) ==
  /\ loop.op = "retry" /\ loop.pc = "calling"
  /\ loop' = [loop EXCEPT !.lastError = lastError(@, e),
                          !.calls = Append(@, Throws(e)),
                          !.pc = IF loop.attempt = loop.maxAttempts
                                   THEN "rejected" ELSE "delaying"]
  /\ UNCHANGED notLoopVars

\* the delay has elapsed: attempt++
DelayElapses ==
  /\ loop.op = "retry" /\ loop.pc = "delaying"
  /\ loop' = [loop EXCEPT !.attempt = @ + 1, !.pc = "test"]
  /\ UNCHANGED notLoopVars

\* i < array.length holds: chunks.push(array.slice(i, i + size)); i += size.
\* A push that memory has no room for ends the process.
ChunkPush ==
  /\ loop.op = "chunk" /\ loop.pc = "loop"
  /\ loop.i < Len(loop.array)
  /\ loop' = IF Len(loop.chunks) = MaxChunks
               THEN [loop EXCEPT !.pc = "outOfMemory"]
               ELSE [loop EXCEPT
                       !.chunks = Append(@, slice(loop.array, loop.i,
                                                  loop.i + loop.size)),
                       !.i = increment(@, loop.size)]
  /\ UNCHANGED notLoopVars

\* i < array.length fails: return chunks
ChunkReturn ==
  /\ loop.op = "chunk" /\ loop.pc = "loop"
  /\ ~(loop.i < Len(loop.array))
  /\ loop' = [loop EXCEPT !.pc = "returned"]
  /\ UNCHANGED notLoopVars

LoopNext ==
  \/ RetryInvoke
  \/ RetryLeave
  \/ \E v \in FnValues : FnReturns(v)
  \/ \E e \in FnErrors : FnThrows(e)
  \/ DelayElapses
  \/ ChunkPush
  \/ ChunkReturn

SpecLoops == LoopInit /\ [][LoopNext]_vars

----------------------------------------------------------------------------
(* Properties of the token service *)

WellFormedConfig ==
  /\ config.defined
  /\ parseExpiry(config.accessTokenExpiry).ok
  /\ parseExpiry(config.refreshTokenExpiry).ok

\* the token is a JWT whose signature, issuer and audience the access verifier accepts
OtherwiseValid(token) ==
  /\ config.defined
  /\ token.form = "jwt"
  /\ token.intact
  /\ token.key = config.accessTokenSecret
  /\ "iss" \in token.claims.has /\ token.claims.iss = config.issuer
  /\ "aud" \in token.claims.has /\ token.claims.aud = config.audience

\* the token generateTokens builds as refreshToken under the current configuration
IsRefreshToken(token) ==
  /\ config.defined
  /\ token.form = "jwt" /\ token.intact
  /\ token.key = config.refreshTokenSecret
  /\ token.claims.has = {"sub", "type", "iat", "exp", "iss", "aud"}
  /\ token.claims.type = "refresh"
  /\ token.claims.iss = config.issuer /\ token.claims.aud = config.audience

\* the token generateTokens builds as accessToken under the current configuration
IsAccessToken(token) ==
  /\ config.defined
  /\ token.form = "jwt" /\ token.intact
  /\ token.key = config.accessTokenSecret
  /\ "permissions" \in token.claims.has /\ "type" \notin token.claims.has
  /\ token.claims.iss = config.issuer /\ token.claims.aud = config.audience

\* C1: with an initialized configuration whose expiry strings are well-formed,
\* generateTokens returns a token pair, and verifyAccessToken of the returned
\* accessToken before its expiry returns a payload whose roles and permissions
\* are exactly the names passed in.
C1_RoundTrip ==
  (last.op = "generateTokens" /\ WellFormedConfig) =>
    /\ last.out.kind = "tokens"
    /\ verifyAccessToken(last.out.accessToken).kind = "payload"
    /\ verifyAccessToken(last.out.accessToken).payload.roles = last.roles
    /\ verifyAccessToken(last.out.accessToken).payload.permissions = last.arg

\* C2: verifyAccessToken returns null for every refresh token and
\* verifyRefreshToken returns null for every access token, for every
\* initialized configuration, also one whose two secrets are equal.
C2_TokenTypeSeparation ==
  /\ (last.op = "verifyAccessToken" /\ IsRefreshToken(last.token))
       => last.out = Null
  /\ (last.op = "verifyRefreshToken" /\ IsAccessToken(last.token))
       => last.out = Null

\* C3: verifyAccessToken returns a payload only for a token signed with the
\* configured access secret, bound to the configured issuer and audience, and
\* presented before exp; in every other case it returns the one value null.
C3_VerifyAccessUniform ==
  last.op = "verifyAccessToken" =>
    IF OtherwiseValid(last.token) /\ now < last.token.claims.exp
      THEN last.out = Value(last.token.claims)
      ELSE last.out = Null

C3_Witness ==
  /\ last.op = "verifyAccessToken"
  /\ last.out.kind = "payload"
  /\ now > 0

\* C4: an otherwise valid access token is rejected at every clock value
\* now >= exp and accepted at now = exp - 1; the clock never runs backwards,
\* so a token rejected for expiry is rejected at every later time.
C4_ExpiryBoundary ==
  /\ [](\A t \in PresentedTokens :
          OtherwiseValid(t) =>
            /\ (now >= t.claims.exp => verifyAccessToken(t) = Null)
            /\ (now = t.claims.exp - 1 => verifyAccessToken(t) = Value(t.claims)))
  /\ [][now' >= now]_vars

C4_Witness ==
  /\ last.op = "verifyAccessToken"
  /\ OtherwiseValid(last.token)
  /\ now = last.token.claims.exp
  /\ last.out = Null

\* C5: verifyAccessToken and verifyRefreshToken never throw, whatever string
\* they are given and also before initialize has been called; a failed
\* verification is the value null.
C5_VerifiersNeverThrow ==
  /\ \A t \in PresentedTokens :
       /\ verifyAccessToken(t).kind \in {"null", "payload"}
       /\ verifyRefreshToken(t).kind \in {"null", "payload"}
  /\ last.op \in {"verifyAccessToken", "verifyRefreshToken"}
       => last.out.kind \in {"null", "payload"}

C5_Witness ==
  /\ last.op = "verifyAccessToken"
  /\ ~config.defined
  /\ last.token.form = "jwt"
  /\ last.out = Null

\* the checks that name at least one role or permission
NamingChecks ==
  {"hasPermission", "hasRole", "hasAnyRole", "hasAllRoles", "hasAnyPermission",
   "hasAllPermissions"}

C7_SnapshotSemantics ==
  /\ (last.op = "verifyAccessToken" /\ last.out.kind = "payload")
       => last.out.payload = last.token.claims
  /\ (last.op = "hasPermission" /\ last.via = "verifyAccessToken"
        /\ "permissions" \in last.token.claims.has)
       => last.out = Bool(last.arg[1] \in Range(last.token.claims.permissions))
  /\ (last.op = "hasRole" /\ last.via = "verifyAccessToken"
        /\ "roles" \in last.token.claims.has)
       => last.out = Bool(last.arg[1] \in Range(last.token.claims.roles))

C7_Witness ==
  /\ last.op = "hasPermission"
  /\ last.via = "verifyAccessToken"
  /\ \E id \in UserRoleIds : ~isActive[id]
  /\ last.out = Bool(TRUE)

----------------------------------------------------------------------------
(* Properties of the role-hierarchy resolver and the context-aware check *)

\* the n-th ancestor of a role along the parent pointers
RECURSIVE Ancestor(_, _)
Ancestor(role, n) ==
  IF n = 0 \/ role = NoRole THEN role
  ELSE Ancestor(parentRoleId[role], n - 1)

\* the roles on the parent chain of a role, the role itself included
Chain(role) ==
  {Ancestor(role, n) : n \in 0..(Cardinality(RoleIds) - 1)} \ {NoRole}

\* the parent chain of the role never reaches a role without a parent
Cyclic(role) == Ancestor(role, Cardinality(RoleIds)) # NoRole

ChainPermissions(role) == UNION {rolePermissions(r) : r \in Chain(role)}

EffectiveAssignments ==
  {i \in DOMAIN assignments : Effective(assignments[i], now)}

\* the user's only effective assignment, when there is exactly one
OnlyAssignment == assignments[CHOOSE i \in EffectiveAssignments : TRUE]

\* the user holds the permission through an effective assignment scoped to
\* the resource
HeldFor(name, resource) ==
  \E i \in EffectiveAssignments :
    /\ assignments[i].context = resource
    /\ name \in ChainPermissions(assignments[i].roleId)

\* C8: a check of a context-required permission for a resource succeeds
\* exactly when the payload names the permission and the user holds it
\* through an effective assignment scoped to that resource: true for
\* (ROUTE, route-123) held through such an assignment, false for
\* (ROUTE, route-456), and never true on the payload's word alone.
C8_ContextualCheck ==
  (/\ ctxCheck.name # ""
   /\ contextRequired(ctxCheck.name)
   /\ ctxCheck.resource.has
   /\ resolver.pc = "done")
  => ctxCheck.out =
       Bool(/\ ctxCheck.name \in Range(ctxCheck.payload.permissions)
            /\ HeldFor(ctxCheck.name, ctxCheck.resource))

C8_Witness ==
  /\ resolver.pc = "done"
  /\ ctxCheck.name = "route.edit"
  /\ ctxCheck.name \in Range(ctxCheck.payload.permissions)
  /\ HeldFor("route.edit", Context("ROUTE", "route-123"))
  /\ ctxCheck.resource = Context("ROUTE", "route-456")
  /\ ctxCheck.out = Bool(FALSE)

\* C9 as stated: for a user whose only effective assignment is a role with
\* an acyclic parent chain, the resolved permission set is the union of the
\* permissions attached to the roles of the chain.
C9_Inheritance ==
  (resolver.pc = "done" /\ Cardinality(EffectiveAssignments) = 1)
  => resolver.permissions = ChainPermissions(OnlyAssignment.roleId)

\* C9 as amended: the resolved set is that union less the context-required
\* permissions when the assignment carries no context.
C9_InheritanceAmended ==
  (resolver.pc = "done" /\ Cardinality(EffectiveAssignments) = 1)
  => resolver.permissions =
       {p \in ChainPermissions(OnlyAssignment.roleId) :
          ~contextRequired(p) \/ OnlyAssignment.context.has}

C9_Witness ==
  /\ resolver.pc = "done"
  /\ Cardinality(EffectiveAssignments) = 1
  /\ OnlyAssignment.roleId = "senior_dispatcher"
  /\ parentRoleId["senior_dispatcher"] = "dispatcher"
  /\ parentRoleId["dispatcher"] = NoRole
  /\ resolver.permissions = {"trip.assign", "trip.override"}

\* C10: a resolution whose walk meets a cycle on the parent chain of an
\* effectively assigned role ends, after a bounded number of visits, failed
\* with CyclicRoleHierarchy and without a permission set; it is never stuck
\* mid-walk and never ends "done".
C10_CycleDetection ==
  /\ resolver.steps <= Cardinality(DOMAIN assignments) * Cardinality(RoleIds)
  /\ resolver.pc = "walking"
       => ENABLED (NextAssignment \/ VisitRole \/ FinishResolve)
  /\ resolver.pc = "done"
       => \A i \in EffectiveAssignments : ~Cyclic(assignments[i].roleId)
  /\ resolver.pc = "failed"
       => /\ resolver.err = "CyclicRoleHierarchy"
          /\ resolver.permissions = {}
          /\ \E i \in EffectiveAssignments : Cyclic(assignments[i].roleId)

C10_Witness ==
  /\ resolver.pc = "failed"
  /\ Cardinality(EffectiveAssignments) = 1
  /\ OnlyAssignment.roleId = "senior_dispatcher"
  /\ parentRoleId["senior_dispatcher"] = "dispatcher"
  /\ parentRoleId["dispatcher"] = "route_manager"
  /\ parentRoleId["route_manager"] = "senior_dispatcher"

----------------------------------------------------------------------------
(* Properties of the configuration and of the permission evaluator *)

\* C11: the token configuration is write-once: once initialize has been
\* called, the configuration the token operations read is the same in every
\* later state, also across further initialize calls.
C11_WriteOnce == [][config.defined => config' = config]_vars

\* C13: a malformed expiry duration is a startup-time error: once initialize
\* has succeeded, no generateTokens call fails with the invalid-duration error.
C13_MalformedExpiryFatalAtStartup ==
  (last.op = "generateTokens" /\ config.defined)
    => last.out # Throw("Error: Invalid expiry format")

\* the payload is one of an access token: it carries both arrays
HasArrays(payload) == {"roles", "permissions"} \subseteq payload.has

\* C16: on a payload with its roles and permissions arrays, hasPermission and
\* hasRole return true iff the name is in the array, the "any" checks iff at
\* least one listed name is, the "all" checks iff every listed name is; on an
\* empty list the "any" checks return false and the "all" checks true.
C16_EvaluatorMembership ==
  LET payload == last.token.claims
      roles == Range(payload.roles)
      permissions == Range(payload.permissions)
      names == Range(last.arg)
  IN
  /\ (last.via = "verifyAccessToken" /\ HasArrays(payload)) =>
       /\ last.op = "hasPermission" => last.out = Bool(last.arg[1] \in permissions)
       /\ last.op = "hasRole" => last.out = Bool(last.arg[1] \in roles)
       /\ last.op = "hasAnyRole" => last.out = Bool(names \cap roles # {})
       /\ last.op = "hasAllRoles" => last.out = Bool(names \subseteq roles)
       /\ last.op = "hasAnyPermission"
            => last.out = Bool(names \cap permissions # {})
       /\ last.op = "hasAllPermissions"
            => last.out = Bool(names \subseteq permissions)
  /\ (last.op \in {"hasAnyRole", "hasAnyPermission"} /\ last.arg = <<>>)
       => last.out = Bool(FALSE)
  /\ (last.op \in {"hasAllRoles", "hasAllPermissions"} /\ last.arg = <<>>)
       => last.out = Bool(TRUE)

\* an "any" check that succeeds on a list of which one name is not held
C16_Witness ==
  /\ last.op = "hasAnyRole"
  /\ last.via = "verifyAccessToken"
  /\ HasArrays(last.token.claims)
  /\ Len(last.arg) = 2
  /\ ~(Range(last.arg) \subseteq Range(last.token.claims.roles))
  /\ last.out = Bool(TRUE)

----------------------------------------------------------------------------
(* Properties of requests served in parallel *)

\* what the request's verifier call returns when it is the only call made
Alone(req) ==
  IF req.verifier = "verifyAccessToken" THEN verifyAccessToken(req.token)
  ELSE verifyRefreshToken(req.token)

\* C12: in any interleaving of the verifier and check calls of several
\* requests, each call has the result it returns when run alone, and no call
\* changes the shared configuration or the payload it is given.
C12_ParallelSafe ==
  /\ [](\A r \in RequestIds :
          /\ requests[r].pc # "start" => requests[r].verified = Alone(requests[r])
          /\ requests[r].pc = "checked" =>
               requests[r].out = Evaluate(requests[r].check,
                                          Alone(requests[r]).payload,
                                          requests[r].names))
  /\ [][/\ config' = config
         /\ \A r \in RequestIds :
              (requests[r].pc # "start" /\ requests'[r].pc # "start")
                => /\ requests'[r].verified = requests[r].verified
                   /\ requests'[r].token = requests[r].token]_vars

\* two requests with different tokens, one granted and one refused the same
\* permission check after the other's verification came in between
C12_Witness ==
  /\ requests["req1"].pc = "checked" /\ requests["req2"].pc = "checked"
  /\ requests["req1"].token # requests["req2"].token
  /\ requests["req1"].check = "hasPermission"
  /\ requests["req2"].check = "hasPermission"
  /\ requests["req1"].out = Bool(TRUE)
  /\ requests["req2"].out.kind = "throw"
  /\ last.op = "hasPermission" /\ last.token = requests["req1"].token

----------------------------------------------------------------------------
(* Properties of the stateless helpers *)

DigitValue(c) == CHOOSE n \in 0..9 : ToString(n) = c

\* the number a string of decimal digits denotes: the one whose i-th digit
\* from the left is the i-th character
DecimalValue(ds) ==
  CHOOSE n \in 0..(10 ^ Len(ds) - 1) :
    \A i \in 1..Len(ds) :
      (n \div (10 ^ (Len(ds) - i))) % 10 = DigitValue(ds[i])

\* <n><unit>: one or more decimal digits followed by one of s, m, h, d
IsDuration(s) ==
  /\ Len(s) >= 2
  /\ s[Len(s)] \in {"s", "m", "h", "d"}
  /\ \A i \in 1..(Len(s) - 1) : s[i] \in Digits

UnitSeconds(unit) ==
  CASE unit = "s" -> 1 [] unit = "m" -> 60 [] unit = "h" -> 60 * 60
    [] unit = "d" -> 24 * 60 * 60

\* C14: parseExpiry returns n seconds, n minutes, n hours or n days in
\* seconds for <n>s, <n>m, <n>h, <n>d with n a non-negative decimal integer,
\* and fails with the invalid-format error for every other string.
C14_ParseExpiry ==
  Returned("parseExpiry") =>
    LET s == util.args.text IN
    IF IsDuration(s)
      THEN util.out = Num(DecimalValue(SubSeq(s, 1, Len(s) - 1))
                            * UnitSeconds(s[Len(s)]))
      ELSE util.out = Thrown("Invalid expiry format")

\* "19d" parsed to 19 days
C14_Witness ==
  /\ Returned("parseExpiry")
  /\ util.args.text = <<"1", "9", "d">>
  /\ util.out = Num(1641600)

\* the remaining lifetime of the payload of the call: max(0, exp - now)
Remaining == IF util.args.payload.exp > now THEN util.args.payload.exp - now ELSE 0

\* C15: shouldRefreshToken returns true iff the remaining lifetime
\* max(0, exp - now) is at most the threshold, which is 300 seconds when none
\* is passed: true for remaining 0, 299 and 300, false for remaining 301.
C15_ShouldRefresh ==
  Returned("shouldRefreshToken") =>
    /\ util.args.threshold.has
         => util.out = Boolean(Remaining <= util.args.threshold.value)
    /\ ~util.args.threshold.has => util.out = Boolean(Remaining <= 300)
    /\ (~util.args.threshold.has /\ Remaining \in {0, 299, 300})
         => util.out = Boolean(TRUE)
    /\ (~util.args.threshold.has /\ Remaining = 301)
         => util.out = Boolean(FALSE)

\* exactly 300 seconds left at a later clock value, default threshold
C15_Witness ==
  /\ Returned("shouldRefreshToken")
  /\ now > 0
  /\ ~util.args.threshold.has
  /\ Remaining = 300
  /\ util.out = Boolean(TRUE)

\* C17: extractTokenId returns the token's jti claim when the token carries
\* one; for a token without it (a token as generateTokens builds it included)
\* it returns the first 16 hex characters of the SHA-256 digest of the raw
\* token, the same for the same token.
C17_ExtractTokenId ==
  Returned("extractTokenId") =>
    LET token == util.args.token IN
    IF token.form = "jwt" /\ "jti" \in token.claims.has
      THEN util.out = TokenId(token.claims.jti)
      ELSE util.out = Sha256Hex16(token)

\* the key of the call's family for another (identifier, action) pair
KeyOf(op, identifier, action) ==
  IF op = "generateRateLimitKey" THEN generateRateLimitKey(identifier, action)
  ELSE generateAttemptKey(identifier, action)

KeyCall == Returned("generateRateLimitKey") \/ Returned("generateAttemptKey")

\* the key has the form <family>:<action>:<identifier>
KeyFormat ==
  util.out = String((IF util.op = "generateRateLimitKey"
                       THEN RateLimitPrefix ELSE AttemptsPrefix)
                    \o <<":">> \o util.args.text2 \o <<":">> \o util.args.text)

\* C18: generateRateLimitKey yields rate_limit:<action>:<identifier> and
\* generateAttemptKey yields attempts:<action>:<identifier>, and within each
\* family no other (identifier, action) pair, of any strings, yields the key
\* of the call.
C18_CollisionFree ==
  KeyCall =>
    /\ KeyFormat
    /\ \A identifier \in KeyParts, action \in KeyParts :
         String(KeyOf(util.op, identifier, action)) = util.out
           => (identifier = util.args.text /\ action = util.args.text2)

\* C18 as amended: the keys have the two forms, and within each family no
\* other (identifier, action) pair whose action is free of the delimiter ":"
\* yields the key of a call whose action is free of it.
C18_CollisionFreeAmended ==
  (KeyCall /\ ":" \notin Range(util.args.text2)) =>
    /\ KeyFormat
    /\ \A identifier \in KeyParts,
          action \in {a \in KeyParts : ":" \notin Range(a)} :
         String(KeyOf(util.op, identifier, action)) = util.out
           => (identifier = util.args.text /\ action = util.args.text2)

\* a rate-limit key for an identifier that contains the delimiter
C18_Witness ==
  /\ Returned("generateRateLimitKey")
  /\ ":" \notin Range(util.args.text2)
  /\ Len(util.args.text2) > 0
  /\ ":" \in Range(util.args.text)

\* the header is the literal Bearer, one blank, and a rest without a blank
IsBearerHeader(present, h) ==
  /\ present
  /\ Len(h) >= 7
  /\ SubSeq(h, 1, 7) = <<"B", "e", "a", "r", "e", "r", " ">>
  /\ \A i \in 8..Len(h) : h[i] # " "

\* C19: extractTokenFromHeader returns the second part of the header iff the
\* header, split on single blanks, has exactly two parts of which the first
\* is exactly Bearer; it returns null for an absent or empty header, any
\* other scheme, and fewer or more parts.
C19_ExtractFromHeader ==
  Returned("extractTokenFromHeader") =>
    LET h == util.args.text IN
    IF IsBearerHeader(util.args.present, h)
      THEN util.out = String(SubSeq(h, 8, Len(h)))
      ELSE util.out = NullValue

\* "Bearer abc" gives "abc"
C19_Witness ==
  /\ Returned("extractTokenFromHeader")
  /\ util.args.text = Bearer \o <<" ", "a", "b", "c">>
  /\ util.out = String(<<"a", "b", "c">>)

\* C20: assignRoleSchema rejects an input with contextId set and contextType
\* unset; an input with contextId absent, or with both present, does not
\* raise that rule's issue; so no accepted input has a contextId without a
\* contextType.
C20_ContextIdNeedsType ==
  Returned("assignRoleSchema") =>
    LET input == util.args.input IN
    /\ ("contextId" \in input.has /\ "contextType" \notin input.has)
         => ~util.out.bool
    /\ ("contextId" \notin input.has
          \/ {"contextId", "contextType"} \subseteq input.has)
         => <<"", RefineMessage>> \notin util.out.issues
    /\ util.out.bool
         => ("contextId" \in input.has => "contextType" \in input.has)

\* an input that only the refinement rejects
C20_Witness ==
  /\ Returned("assignRoleSchema")
  /\ "contextId" \in util.args.input.has
  /\ "contextType" \notin util.args.input.has
  /\ util.out.issues = {<<"", RefineMessage>>}
  /\ ~util.out.bool

----------------------------------------------------------------------------
(* Properties of decoding, expiry tests, blacklist keys and generators *)

\* C26: extractTokenFromHeader never returns an empty token: whenever it
\* returns a string, the string has at least one character.
C26_NeverEmptyToken ==
  (Returned("extractTokenFromHeader") /\ util.out.kind = "string")
    => util.out.chars # <<>>

\* C24: both isTokenExpired helpers return true exactly when jwt.verify would
\* reject the payload's token as expired, that is exactly when now >= exp.
C24_ExpiredLikeVerify ==
  (Returned("isTokenExpired") \/ Returned("Utils.isTokenExpired"))
    => (util.out.bool <=> jwt_verify_expired(now, util.args.payload.exp))

\* the signature, issuer, audience and expiry checks of the access verifier
\* all pass for the token now
PassesVerification(token) ==
  /\ config.defined
  /\ jwt_verify(token, config.accessTokenSecret, config.issuer,
                config.audience, now).ok

\* C25: every payload an exported operation returns from a token string
\* belongs to a token that has passed signature, issuer, audience and expiry
\* verification.
C25_OnlyVerifiedPayloads ==
  (/\ last.op \in {"verifyAccessToken", "extractJwtPayload"}
   /\ last.out.kind = "payload")
    => PassesVerification(last.token)

\* the tokens generateTokens is written to issue: signed JWTs with the
\* default header and no jti claim
Issued(t) ==
  /\ t.form = "jwt" /\ t.intact
  /\ t.header = JoseHeader
  /\ "jti" \notin t.claims.has

\* C23: two different issued tokens never get the same blacklist key.
C23_BlacklistIsolation ==
  (Returned("generateBlacklistKey") /\ Issued(util.args.token)) =>
    \A other \in {t \in IdentifiedTokens : Issued(t)} :
      other # util.args.token
        => generateBlacklistKey(extractTokenId(other)) # util.out

\* C22: every generator of a secret draws its characters from the
\* cryptographically secure source, crypto.randomBytes.
C22_SecureSource ==
  (util.op \in Generators /\ util.out.kind # "none")
    => util.out.source = "crypto.randomBytes"

----------------------------------------------------------------------------
(* Properties of the Database class *)

\* C21: a call of createAuditLog or createPermissionAuditLog never rejects,
\* whatever the sink does: with no instance yet, with values that cannot be
\* serialized and with a create call that fails, its promise resolves and
\* the failure is only logged, so the caller that awaits it keeps its result.
C21_AuditNeverRejects ==
  /\ db.audit.pc # "rejected"
  /\ db.audit.logged # "" => db.audit.pc = "resolved"

C21_Witness ==
  /\ db.audit.pc = "resolved"
  /\ db.audit.logged = "PrismaClientKnownRequestError"

\* C29: at most one PrismaClient is constructed, every getInstance call
\* returns that one instance, and the connect attempt and the handlers for
\* beforeExit, SIGINT and SIGTERM are made exactly once, however getInstance,
\* disconnect and healthCheck interleave.
C29_Singleton ==
  db.calls > 0 =>
    /\ db.constructed = 1
    /\ db.returned = {db.instance}
    /\ db.connects = 1
    /\ \A e \in Events : db.handlers[e] = 1

C29_Witness ==
  /\ db.calls > 1
  /\ db.health # "none"
  /\ db.disconnecting["disconnect"] = 1
  /\ db.connection = "connected"

\* C28: once getInstance has been called, a SIGINT or SIGTERM whose handler
\* has finished waiting for $disconnect() has ended the process with exit
\* code 0, also when $disconnect() failed.
C28_GracefulExit ==
  (db.calls > 0 /\ db.handled) =>
    (db.process = "exited" /\ db.exitCode = 0)

----------------------------------------------------------------------------
(* Properties of Utils.retry and Utils.chunk *)

\* what the claim says of a call of retry, at every moment of the call
RetryContract ==
  /\ Len(loop.calls) + (IF loop.pc = "calling" THEN 1 ELSE 0)
       <= Max(loop.maxAttempts, 0)
  /\ \A k \in 1..Len(loop.calls) :
       ~loop.calls[k].threw => (k = Len(loop.calls) /\ loop.pc = "resolved")
  /\ loop.pc = "resolved" =>
       /\ loop.calls # <<>>
       /\ loop.calls[Len(loop.calls)] = Returns(loop.value)
  /\ loop.pc = "rejected" =>
       /\ loop.calls # <<>>
       /\ loop.calls[Len(loop.calls)].threw
       /\ loop.lastError = Error(loop.calls[Len(loop.calls)].what)

RECURSIVE Concat(_)
Concat(chunks) ==
  IF chunks = <<>> THEN <<>> ELSE Head(chunks) \o Concat(Tail(chunks))

\* what the claim says of a call of chunk: it returns, and what it returns
ChunkContract ==
  /\ loop.pc # "outOfMemory"
  /\ loop.pc = "returned" =>
       /\ Concat(loop.chunks) = loop.array
       /\ \A k \in 1..(Len(loop.chunks) - 1) :
            Len(loop.chunks[k]) = loop.size

\* C30: chunk terminates for every array and size, the concatenation of the
\* chunks is the input array, and every chunk except possibly the last has
\* exactly size elements.
C30_Chunk == loop.op = "chunk" => ChunkContract

\* with a size of at least 1 the call returns what the claim says
ChunkOfPositiveSize ==
  (loop.op = "chunk" /\ loop.size >= 1) => ChunkContract

\* a call that returned two chunks, the last one shorter than size
ChunkedInTwo ==
  /\ loop.op = "chunk"
  /\ loop.pc = "returned"
  /\ loop.size = 2
  /\ Len(loop.chunks) = 2
  /\ Len(loop.chunks[2]) = 1

====
